---- MODULE Spec2Model ----
(***************************************************************************)
(* Model of the discovery-and-deduplication engine of arxiv-automation     *)
(* (src/modules/arxiv.py, class ArxivClient).                              *)
(*                                                                         *)
(* The engine keeps an in-memory ledger (seen_papers), its durable copy    *)
(* (SEEN_PAPERS_FILE), and reads a per-record content cache                *)
(* (SUMMARIES_DIR/<id>.json).  search_papers pages through the remote      *)
(* result list, skips what the ledger or the current call has seen,        *)
(* reuses cached records, converts the rest, and marks what it accepted.   *)
(***************************************************************************)
EXTENDS Integers, Sequences, FiniteSets, TLC

\* ------------------------------------------------------------------ bounds

\* Longest remote result list.
MaxRemote == 4
\* Number of search_papers calls made on one engine instance.
MaxCalls == 2
\* Largest max_results argument.
MaxResultsArg == 2

\* Longest list of search terms or of categories given to a query builder.
MaxList == 2

\* The request_size arguments.
RequestSizes == {1, 2}

\* Record identifiers.  They are opaque to the engine.
IDs == {1, 2}

\* ------------------------------------------------------------- data model

\* Optional[str] = None
None == <<"None">>

\* Optional[PaperData] = None
NoPaper == [none |-> TRUE]

\* Optional[List[str]]: None, or a list.
NoList == [none |-> TRUE]
ListOf(l) == [list |-> l]

\* The summaries of the model: None, "", " " and "s", each string a sequence
\* of characters.
SummaryValues == {None, <<>>, <<" ">>, <<"s">>}

\* Python truthiness of an Optional[str]: None and "" are falsy.
Truthy(s) == s # None /\ s # <<>>

\* str.strip(): drop leading and trailing whitespace.
RECURSIVE LStrip(_)
LStrip(s) == IF s # <<>> /\ Head(s) = " " THEN LStrip(Tail(s)) ELSE s

RECURSIVE RStrip(_)
RStrip(s) ==
  IF s # <<>> /\ s[Len(s)] = " " THEN RStrip(SubSeq(s, 1, Len(s) - 1)) ELSE s

Strip(s) == RStrip(LStrip(s))

\* PaperData: id, summary, pdf_url, title standing for the descriptive fields
\* that are always set, and doi for the other Optional ones, None by default.
PaperData(id, title, summary) ==
  [id |-> id, title |-> title, summary |-> summary, doi |-> None,
   pdf_url |-> None]

\* The schemes of a URL, character by character.
Http == <<"h", "t", "t", "p">>
Https == <<"h", "t", "t", "p", "s">>

\* The URL <scheme>://<host>/pdf/<i><suffix>: the scheme and the colon
\* character by character, the rest in pieces.
PdfUrl(scheme, host, i, suffix) ==
  scheme \o <<":", "/", "/", host, "/", "pdf", "/", i, suffix>>

\* An arxiv.Result of the remote service for record i: its entry_id is a URL
\* whose last path segment is the arXiv identifier, its pdf_url the link the
\* service gives, with the scheme of the entry_id.
RawResult(i) ==
  [entry_id |-> <<"http:", "", "arxiv.org", "abs", i>>, title |-> "api",
   doi |-> None, pdf_url |-> PdfUrl(Http, "arxiv.org", i, "")]

\* paper.entry_id.split('/')[-1]
PaperId(paper) == paper.entry_id[Len(paper.entry_id)]

\* str.startswith(prefix)
StartsWith(s, prefix) ==
  Len(s) >= Len(prefix) /\ SubSeq(s, 1, Len(prefix)) = prefix

\* Mutation: the URL is kept as the service gave it.
SecureUrl_AsGiven(pdf_url) == pdf_url

\* "if pdf_url.startswith('http:'): pdf_url = 'https' + pdf_url[4:]"
SecureUrl(pdf_url) ==
  IF StartsWith(pdf_url, Http \o <<":">>)
  THEN Https \o SubSeq(pdf_url, 5, Len(pdf_url))
  ELSE pdf_url

\* pdf_url.startswith raises AttributeError when result.pdf_url is None.
ConvertRaises(result) ==
  "pdf_url" \in DOMAIN result /\ result.pdf_url = None

\* _convert_result, when it does not raise: a fresh PaperData whose pdf_url
\* is that of the result, or the arXiv link of the id when the result has no
\* such attribute, with https for http; summary stays None.
_convert_result(result) ==
  LET arxiv_id == PaperId(result)
      pdf_url == IF "pdf_url" \in DOMAIN result
                 THEN result.pdf_url
                 ELSE PdfUrl(Https, "arxiv.org", arxiv_id, ".pdf")
  IN  [PaperData(arxiv_id, result.title, None) EXCEPT
         !.doi = result.doi, !.pdf_url = SecureUrl(pdf_url)]

\* PaperData.to_dict: asdict, the dictionary of the fields.
to_dict(paper_data) ==
  [k \in {"id", "title", "summary", "doi", "pdf_url"} |-> paper_data[k]]

\* PaperData.from_dict: cls(**data).
from_dict(data) ==
  [id |-> data["id"], title |-> data["title"], summary |-> data["summary"],
   doi |-> data["doi"], pdf_url |-> data["pdf_url"]]

\* The fields of PaperData, and those without a default.
Fields == {"id", "title", "summary", "doi", "pdf_url"}
RequiredFields == {"id", "title"}

\* cls(**data) raises TypeError for a key that is no field and for a missing
\* field that has no default.
FromDictRaises(data) ==
  ~(DOMAIN data \subseteq Fields /\ RequiredFields \subseteq DOMAIN data)

\* The fields declared Optional: their value may be None.
OptionalFields == {"summary", "doi", "pdf_url"}

\* JSON values: null and strings.
JsonNull == [json |-> "null"]
JsonString(v) == [json |-> "string", chars |-> v]

\* json.dump of a dictionary: None is written as null, a str as a string.
JsonDump(data) ==
  [k \in DOMAIN data |->
     IF k \in OptionalFields /\ data[k] = None THEN JsonNull ELSE JsonString(data[k])]

\* Mutation: null is read as the empty string.
JsonLoad_NullAsEmpty(text) ==
  [k \in DOMAIN text |-> IF text[k].json = "null" THEN <<>> ELSE text[k].chars]

\* json.load of an object: null is read as None, a string as a str.
JsonLoad(text) ==
  [k \in DOMAIN text |-> IF text[k].json = "null" THEN None ELSE text[k].chars]

\* Content of one cache file: absent, not JSON, or a serialized PaperData
\* stored under its own id (save_summary_to_file names the file by paper_data.id).
NoFile == [kind |-> "missing"]
BadJson == [kind |-> "malformed"]
JsonFile(paper_data) == [kind |-> "json", text |-> JsonDump(to_dict(paper_data))]
\* A file of valid JSON that is no PaperData: an object with other keys.
MismatchFile(i) ==
  [kind |-> "json",
   text |-> [k \in {"id", "name"} |-> [json |-> "string", chars |-> <<"x">>]]]

FileContents(i) == {NoFile, BadJson} \cup {JsonFile(PaperData(i, "file", s)) : s \in SummaryValues}

\* Content of the durable ledger: absent, not JSON, or the stored mapping.
NoLedgerFile == [kind |-> "missing"]
BadLedgerFile == [kind |-> "malformed"]
LedgerFile(m) == [kind |-> "json", data |-> m]

\* ------------------------------------------------------------------ state

VARIABLES
  remote,                    \* result list of the remote service, newest first
  summaries,                 \* SUMMARIES_DIR: id -> file content
  seen_file,                 \* SEEN_PAPERS_FILE: durable ledger
  seen_papers,               \* self.seen_papers: id -> timestamp
  pc,                        \* position of the current search_papers call
  args,                      \* arguments every search_papers call is made with
  found_papers,              \* search_papers local
  seen_in_this_run,          \* search_papers local
  start_index,               \* search_papers local
  consecutive_seen_requests, \* search_papers local
  result,                    \* what the last call returned
  ncalls,                    \* calls started so far; also the clock
  hist,                      \* observations of the current / last call
  prev,                      \* result and end of the call before
  log,                       \* warnings printed by the constructor, then by
                             \* the current / last operation
  call,                      \* the last get_paper_by_id, save_summary_to_file
                             \* or mark_papers_as_seen call and its outcome
  main,                      \* run_once.main: its position and its locals
  got,                       \* ids get_paper_by_id has returned a paper for
  other                      \* a second ArxivClient of another process on the
                             \* same files: its name and its own state

vars == <<remote, summaries, seen_file, seen_papers, pc, args, found_papers,
          seen_in_this_run, start_index, consecutive_seen_requests, result,
          ncalls, hist, prev, log, call, main, got, other>>

\* ------------------------------------------------------- pure operations

Min(a, b) == IF a < b THEN a ELSE b

SetMax(S) == IF S = {} THEN 0 ELSE CHOOSE x \in S : \A y \in S : y <= x

\* Mutation: one unproductive request fewer is allowed.
max_consecutive_seen_minus_one == 3 - 1

\* Mutation: one more unproductive request is allowed.
max_consecutive_seen_plus_one == 3 + 1

\* Stop after this many consecutive requests with no new paper.
max_consecutive_seen == 3

\* Python truthiness of an Optional[List[str]]: None and [] are falsy.
ListTruthy(l) == l # NoList /\ l.list # <<>>

\* sep.join(parts); a string is the sequence of its pieces.
RECURSIVE Join(_, _)
Join(parts, sep) ==
  IF parts = <<>> THEN <<>>
  ELSE IF Len(parts) = 1 THEN Head(parts)
  ELSE Head(parts) \o <<sep>> \o Join(Tail(parts), sep)

\* Mutation: every term is put between encoded quotes.
EncodedTerm_Always(term) == <<"%22">> \o term \o <<"%22">>

\* A multi-word term is put between encoded quotes.
EncodedTerm(term) ==
  IF \E i \in DOMAIN term : term[i] = " "
  THEN <<"%22">> \o term \o <<"%22">>
  ELSE term

\* Mutation: without criteria the query matches everything.
_construct_query_MatchAll(search_terms, categories) ==
  IF ListTruthy(categories) \/ ListTruthy(search_terms)
  THEN <<"cat:", "cs.AI">>
  ELSE <<"all:", "*">>

\* Mutation: the categories are never parenthesized.
CategoryClause_NoParens(categories) ==
  Join([i \in DOMAIN categories |-> <<"cat:", categories[i]>>], " OR ")

\* The part of the query for a non-empty list of categories.
CategoryClause(categories) ==
  IF Len(categories) > 1
  THEN <<"(">>
       \o Join([i \in DOMAIN categories |-> <<"cat:", categories[i]>>], " OR ")
       \o <<")">>
  ELSE <<"cat:", categories[1]>>

\* The part of the query for a non-empty list of search terms.
TermClause(search_terms) ==
  IF Len(search_terms) > 1
  THEN <<"(">>
       \o Join([i \in DOMAIN search_terms |-> EncodedTerm(search_terms[i])],
               " OR ")
       \o <<")">>
  ELSE EncodedTerm(search_terms[1])

\* Mutation: the term clause comes first.
_construct_query_TermsFirst(search_terms, categories) ==
  LET query_parts ==
        (IF ListTruthy(search_terms)
         THEN <<TermClause(search_terms.list)>> ELSE <<>>)
        \o (IF ListTruthy(categories)
            THEN <<CategoryClause(categories.list)>> ELSE <<>>)
  IN  IF query_parts # <<>> THEN Join(query_parts, " AND ") ELSE <<>>

\* _construct_query: the categories joined by OR, the terms joined by OR,
\* the two parts joined by AND; "" when there is neither.
_construct_query(search_terms, categories) ==
  LET query_parts ==
        (IF ListTruthy(categories)
         THEN <<CategoryClause(categories.list)>> ELSE <<>>)
        \o (IF ListTruthy(search_terms)
            THEN <<TermClause(search_terms.list)>> ELSE <<>>)
  IN  IF query_parts # <<>> THEN Join(query_parts, " AND ") ELSE <<>>

\* A term of search, with literal quote marks around a multi-word term.
QuotedTerm(term) ==
  IF \E i \in DOMAIN term : term[i] = " "
  THEN <<"\"">> \o term \o <<"\"">>
  ELSE term

\* The query ArxivClient.search builds before it requests the results: the
\* categories as in _construct_query, a list of terms always in parentheses.
search_query(search_terms, categories) ==
  LET cat_part ==
        IF ListTruthy(categories)
        THEN LET cats == Join([i \in DOMAIN categories.list |->
                                <<"cat:", categories.list[i]>>], " OR ")
             IN  IF Len(categories.list) > 1
                 THEN << <<"(">> \o cats \o <<")">> >>
                 ELSE <<cats>>
        ELSE <<>>
      term_part ==
        IF ListTruthy(search_terms)
        THEN << <<"(">>
                \o Join([i \in DOMAIN search_terms.list |->
                           QuotedTerm(search_terms.list[i])], " OR ")
                \o <<")">> >>
        ELSE <<>>
      query_parts == cat_part \o term_part
  IN  IF query_parts # <<>> THEN Join(query_parts, " AND ") ELSE <<>>

\* _load_seen_papers: a missing or unreadable file gives an empty ledger.
_load_seen_papers(file) ==
  IF file.kind = "json" THEN file.data ELSE [k \in {} |-> 0]

\* Mutation: a missing file is warned about as well.
LoadWarning_AnyFailure(file) ==
  IF file.kind # "json" THEN {"seen_papers_read"} ELSE {}

\* The warning _load_seen_papers prints: only a file that exists and cannot
\* be read or parsed gets one.
LoadWarning(file) ==
  IF file.kind = "malformed" THEN {"seen_papers_read"} ELSE {}

\* Mutation: a file that cannot be parsed is taken for a record with a
\* summary.
_load_summary_from_file_Lenient(paper_id) ==
  IF summaries[paper_id].kind = "json"
  THEN from_dict(JsonLoad(summaries[paper_id].text))
  ELSE IF summaries[paper_id].kind = "malformed"
  THEN PaperData(paper_id, "file", <<"s">>)
  ELSE NoPaper

\* _load_summary_from_file, when it does not raise (LoadRaises): the
\* PaperData of the file, or None.
_load_summary_from_file(paper_id) ==
  IF summaries[paper_id].kind = "json"
       /\ ~FromDictRaises(JsonLoad(summaries[paper_id].text))
  THEN from_dict(JsonLoad(summaries[paper_id].text))
  ELSE NoPaper

\* Mutation: the TypeError is caught like the other errors of reading.
LoadRaises_Caught(paper_id) == FALSE

\* _load_summary_from_file raises: the file is JSON, and from_dict raises a
\* TypeError, which "except (json.JSONDecodeError, IOError)" does not catch.
LoadRaises(paper_id) ==
  summaries[paper_id].kind = "json"
    /\ FromDictRaises(JsonLoad(summaries[paper_id].text))

\* Mutation: the guard does not strip.
Enriched_NoStrip(paper_data) == Truthy(paper_data.summary)

\* The guard of save_summary_to_file, negated: the summary is present and not
\* blank.  This is what "enriched" means.
Enriched(paper_data) ==
  ~(~Truthy(paper_data.summary) \/ ~Truthy(Strip(paper_data.summary)))

\* "existing_summary_paper and existing_summary_paper.summary"
HasSummary(existing_summary_paper) ==
  existing_summary_paper # NoPaper /\ Truthy(existing_summary_paper.summary)

\* Mutation: the duplicates within one call are not tracked.
AlreadySeen_LedgerOnly(paper_id, run) ==
  paper_id \in DOMAIN seen_papers

\* Mutation: a paper with a usable cache file is taken whatever the ledger says.
AlreadySeen_CacheFirst(paper_id, run) ==
  \/ paper_id \in DOMAIN seen_papers /\ ~HasSummary(_load_summary_from_file(paper_id))
  \/ paper_id \in run

\* "paper_id in self.seen_papers or paper_id in seen_in_this_run"
AlreadySeen(paper_id, run) ==
  paper_id \in DOMAIN seen_papers \/ paper_id \in run

\* Mutation: the cache file is never used.
PaperFor_AlwaysConvert(paper) == _convert_result(paper)

\* The PaperData search_papers accepts for one raw result.
PaperFor(paper) ==
  LET existing_summary_paper == _load_summary_from_file(PaperId(paper))
  IN  IF HasSummary(existing_summary_paper)
      THEN existing_summary_paper
      ELSE _convert_result(paper)

\* Accepting the raw result raises: in _load_summary_from_file, or in
\* _convert_result when that is called.
PaperRaises(paper) ==
  \/ LoadRaises(PaperId(paper))
  \/ /\ ~HasSummary(_load_summary_from_file(PaperId(paper)))
     /\ ConvertRaises(paper)

\* The page the remote service delivers for a request of request_size
\* results starting at start_index.
Page(offset, size) ==
  [k \in 1 .. (Min(offset + size, Len(remote)) - Min(offset, Len(remote)))
     |-> RawResult(remote[offset + k])]

\* Mutation: the loop over the page has no break.
RECURSIVE ProcessResults_NoBreak(_, _, _)
ProcessResults_NoBreak(results, st, max_results) ==
  IF results = <<>> THEN st
  ELSE
    LET paper == Head(results)
        paper_id == PaperId(paper)
    IN  IF paper_id \in DOMAIN seen_papers \/ paper_id \in st.run
        THEN ProcessResults_NoBreak(Tail(results), st, max_results)
        ELSE
          ProcessResults_NoBreak(Tail(results),
            [found |-> Append(st.found, PaperFor(paper)),
             run |-> st.run \cup {paper_id},
             new |-> st.new + 1,
             order |-> Append(st.order, paper_id),
             converted |->
               IF HasSummary(_load_summary_from_file(paper_id))
               THEN st.converted
               ELSE st.converted \cup {paper_id},
             raised |-> FALSE],
            max_results)

\* The "for paper in results" loop of search_papers, with its break.
\* st: found (found_papers), run (seen_in_this_run), new (new_papers_in_batch),
\* order (the paper_id each found paper was accepted under), converted (the
\* paper_ids _convert_result was called for), raised (an exception ended the
\* loop).
RECURSIVE ProcessResults(_, _, _)
ProcessResults(results, st, max_results) ==
  IF results = <<>> THEN st
  ELSE
    LET paper == Head(results)
        paper_id == PaperId(paper)
    IN  IF AlreadySeen(paper_id, st.run)
        THEN ProcessResults(Tail(results), st, max_results)
        ELSE IF PaperRaises(paper)
        THEN [st EXCEPT !.raised = TRUE]
        ELSE
          LET paper_data == PaperFor(paper)
              st2 == [found |-> Append(st.found, paper_data),
                      run |-> st.run \cup {paper_id},
                      new |-> st.new + 1,
                      order |-> Append(st.order, paper_id),
                      converted |->
                        IF HasSummary(_load_summary_from_file(paper_id))
                        THEN st.converted
                        ELSE st.converted \cup {paper_id},
                      raised |-> FALSE]
          IN  IF Len(st2.found) >= max_results
              THEN st2
              ELSE ProcessResults(Tail(results), st2, max_results)

\* Mutation: the loop goes on until requests stall, whatever it has found.
Continue_StallOnly(found, consecutive) == consecutive < max_consecutive_seen

\* The condition of the while loop, and of the wait between requests.
Continue(found, consecutive) ==
  Len(found) < args.max_results /\ consecutive < max_consecutive_seen

\* Mutation: the counter of unproductive requests is never reset.
NextConsecutive_NoReset(new_papers_in_batch, consecutive) == consecutive + 1

\* "if new_papers_in_batch == 0: consecutive_seen_requests += 1
\*  else: consecutive_seen_requests = 0"
NextConsecutive(new_papers_in_batch, consecutive) ==
  IF new_papers_in_batch = 0 THEN consecutive + 1 ELSE 0

\* Mutation: the offset advances by one result.
NextOffset_ByOne(offset) == offset + 1

\* "start_index += request_size"
NextOffset(offset) == offset + args.request_size

\* Mutation: the engine waits after every page.
AfterPage_AlwaysSleep(found, consecutive) == "sleep"

\* After a page: wait if the loop goes on, else back to the while test.
AfterPage(found, consecutive) ==
  IF Continue(found, consecutive) THEN "sleep" ELSE "while"

\* Mutation: every paper of the pages requested is marked.
MarkedLedger_WholePages(papers, current_date) ==
  [k \in DOMAIN seen_papers \cup hist.fetched |->
     IF k \in DOMAIN seen_papers THEN seen_papers[k] ELSE current_date]

\* Mutation: the ledger is rebuilt from the papers of this call.
MarkedLedger_Replace(papers, current_date) ==
  [k \in {papers[i].id : i \in DOMAIN papers} |-> current_date]

\* Mutation: the last paper is not marked.
MarkedLedger_SkipsLast(papers, current_date) ==
  [k \in DOMAIN seen_papers \cup {papers[i].id : i \in 1 .. (Len(papers) - 1)} |->
     IF k \in DOMAIN seen_papers THEN seen_papers[k] ELSE current_date]

\* mark_papers_as_seen: every paper's id gets the current date.
MarkedLedger(papers, current_date) ==
  [k \in DOMAIN seen_papers \cup {papers[i].id : i \in DOMAIN papers} |->
     IF k \in {papers[i].id : i \in DOMAIN papers}
     THEN current_date
     ELSE seen_papers[k]]

\* ------------------------------------------------------------------- Init

\* Remote lists up to renaming of identifiers: identifiers are numbered in
\* the order of their first occurrence.
Canonical(s) ==
  \A i \in DOMAIN s : s[i] <= 1 + SetMax({s[j] : j \in 1 .. (i - 1)})

RemoteLists ==
  {s \in UNION {[1 .. n -> IDs] : n \in 0 .. MaxRemote} : Canonical(s)}

Ledgers == UNION {[S -> {0}] : S \in SUBSET IDs}

LedgerFiles == {NoLedgerFile, BadLedgerFile} \cup {LedgerFile(m) : m \in Ledgers}

Caches ==
  {c \in [IDs -> UNION {FileContents(i) : i \in IDs}] :
     /\ \A i \in IDs : c[i] \in FileContents(i)
     /\ Cardinality({i \in IDs : c[i] # NoFile}) <= 1}

\* The search_terms and categories a caller passes: nothing, an empty list,
\* or a list.
SearchTerms ==
  {NoList, ListOf(<<>>), ListOf(<< <<"mechanistic", " ", "interpretability">> >>)}

Categories == {NoList, ListOf(<<>>), ListOf(<<"cs.AI", "cs.LG">>)}

\* The calls without criteria, and the call with both.
Criteria ==
  {c \in SearchTerms \X Categories :
     ListTruthy(c[1]) = ListTruthy(c[2])}

\* The quotas a call is made with: none, one, and the largest.
Quotas == {0, 1, MaxResultsArg}

\* The arguments of search_papers.
ArgSets ==
  {[search_terms |-> c[1], categories |-> c[2], max_results |-> m,
    request_size |-> r] :
     c \in Criteria, m \in Quotas, r \in RequestSizes}

\* "query = self._construct_query(search_terms, categories)"
query == _construct_query(args.search_terms, args.categories)

\* nsaves counts the calls of _save_seen_papers; offsets lists the offset of
\* every request, yields the new_papers_in_batch of every processed page,
\* events the requests ("fetch") and pauses ("sleep") in their order.
NoHist == [seen0 |-> {}, nfetch |-> 0, fetched |-> {}, converted |-> {},
           order |-> <<>>, stop |-> "none", nsaves |-> 0,
           offsets |-> <<>>, yields |-> <<>>, events |-> <<>>]

\* main before summarize_papers: nothing summarized, saved or sent.
NoRun ==
  [at |-> "start", paper_summaries |-> <<>>, llm_requests |-> 0,
   written |-> {}, emails |-> <<>>, email_success |-> FALSE,
   committed |-> [none |-> TRUE]]

\* No get_paper_by_id, save_summary_to_file or mark_papers_as_seen call yet.
NoCall == [op |-> "none"]

NoPrev == [called |-> FALSE, result |-> <<>>, stop |-> "none", log |-> {}]

\* No second ArxivClient.
NoOther == [none |-> TRUE]

Init ==
  /\ remote \in RemoteLists
  /\ summaries \in Caches
  /\ seen_file \in LedgerFiles
  /\ seen_papers = _load_seen_papers(seen_file)
  /\ pc = "idle"
  /\ args \in ArgSets
  /\ found_papers = <<>>
  /\ seen_in_this_run = {}
  /\ start_index = 0
  /\ consecutive_seen_requests = 0
  /\ result = <<>>
  /\ ncalls = 0
  /\ hist = NoHist
  /\ prev = NoPrev
  /\ log = LoadWarning(seen_file)
  /\ call = NoCall
  /\ main = NoRun
  /\ got = {}
  /\ other = NoOther

\* ---------------------------------------------------------------- actions

Remember ==
  [called |-> ncalls > 0, result |-> result, stop |-> hist.stop,
   log |-> log \cap {"seen_papers_save"}]

\* search_papers with no search term and no category: "return []".
\* n is the number of calls started, this one included.
NoQueryCall(n) ==
  /\ pc = "idle"
  /\ query = <<>>
  /\ prev' = Remember
  /\ ncalls' = n
  /\ hist' = [NoHist EXCEPT !.seen0 = DOMAIN seen_papers]
  /\ found_papers' = <<>>
  /\ seen_in_this_run' = {}
  /\ start_index' = 0
  /\ consecutive_seen_requests' = 0
  /\ result' = <<>>
  /\ pc' = "idle"
  /\ log' = {}
  /\ call' = NoCall
  /\ UNCHANGED <<main, got, other, remote, summaries, seen_file, seen_papers, args>>

\* search_papers up to the first test of the while loop.
StartCall(n) ==
  /\ pc = "idle"
  /\ query # <<>>
  /\ prev' = Remember
  /\ ncalls' = n
  /\ hist' = [NoHist EXCEPT !.seen0 = DOMAIN seen_papers]
  /\ found_papers' = <<>>
  /\ seen_in_this_run' = {}
  /\ start_index' = 0
  /\ consecutive_seen_requests' = 0
  /\ pc' = "while"
  /\ log' = {}
  /\ call' = NoCall
  /\ UNCHANGED <<main, got, other, remote, summaries, seen_file, seen_papers, args, result>>

\* One of the MaxCalls calls of a run.
SearchNoQuery == ncalls < MaxCalls /\ NoQueryCall(ncalls + 1)

SearchStart == ncalls < MaxCalls /\ StartCall(ncalls + 1)

\* The while condition is false: leave the loop.
LoopExit ==
  /\ pc = "while"
  /\ ~Continue(found_papers, consecutive_seen_requests)
  /\ pc' = "mark"
  /\ UNCHANGED <<main, got, other, log, call, remote, summaries, seen_file, seen_papers, args, found_papers,
                 seen_in_this_run, start_index, consecutive_seen_requests,
                 result, ncalls, hist, prev>>

\* Mutation: a failed request is tried again.
FetchFail_Retry ==
  /\ pc = "while"
  /\ Continue(found_papers, consecutive_seen_requests)
  /\ hist' = [hist EXCEPT !.nfetch = @ + 1, !.stop = "fail",
                          !.offsets = Append(@, start_index),
                          !.events = Append(@, "fetch")]
  /\ pc' = "while"
  /\ hist.nfetch < 2 * MaxRemote
  /\ UNCHANGED <<main, got, other, log, call, remote, summaries, seen_file, seen_papers, args, found_papers,
                 seen_in_this_run, start_index, consecutive_seen_requests,
                 result, ncalls, prev>>

\* The request raises: "except Exception ... break".
FetchFail ==
  /\ pc = "while"
  /\ Continue(found_papers, consecutive_seen_requests)
  /\ hist' = [hist EXCEPT !.nfetch = @ + 1, !.stop = "fail",
                          !.offsets = Append(@, start_index),
                          !.events = Append(@, "fetch")]
  /\ pc' = "mark"
  /\ UNCHANGED <<main, got, other, log, call, remote, summaries, seen_file, seen_papers, args, found_papers,
                 seen_in_this_run, start_index, consecutive_seen_requests,
                 result, ncalls, prev>>

\* The request delivers no result: "if not results: break".
FetchEmpty ==
  /\ pc = "while"
  /\ Continue(found_papers, consecutive_seen_requests)
  /\ Page(start_index, args.request_size) = <<>>
  /\ hist' = [hist EXCEPT !.nfetch = @ + 1, !.stop = "empty",
                          !.offsets = Append(@, start_index),
                          !.events = Append(@, "fetch")]
  /\ pc' = "mark"
  /\ UNCHANGED <<main, got, other, log, call, remote, summaries, seen_file, seen_papers, args, found_papers,
                 seen_in_this_run, start_index, consecutive_seen_requests,
                 result, ncalls, prev>>

\* The request has delivered the page results: process it, account for it,
\* advance; or, when processing it raised, leave the loop as after a failed
\* request ("except Exception ... break"), with what was appended so far.
\* st is the state of the locals when the "for" loop is left.
ProcessPage(results) ==
  /\ pc = "while"
  /\ Continue(found_papers, consecutive_seen_requests)
  /\ results # <<>>
  /\ \E st \in {ProcessResults(results,
                   [found |-> found_papers, run |-> seen_in_this_run, new |-> 0,
                    order |-> hist.order, converted |-> hist.converted,
                    raised |-> FALSE],
                   args.max_results)} :
       LET consecutive == IF st.raised THEN consecutive_seen_requests
                          ELSE NextConsecutive(st.new, consecutive_seen_requests)
       IN  /\ found_papers' = st.found
           /\ seen_in_this_run' = st.run
           /\ consecutive_seen_requests' = consecutive
           /\ start_index' = IF st.raised THEN start_index ELSE NextOffset(start_index)
           /\ hist' = [hist EXCEPT !.nfetch = @ + 1,
                                   !.fetched = @ \cup {PaperId(results[i]) : i \in DOMAIN results},
                                   !.order = st.order,
                                   !.converted = st.converted,
                                   !.stop = IF st.raised THEN "raise" ELSE @,
                                   !.offsets = Append(@, start_index),
                                   !.yields = IF st.raised THEN @ ELSE Append(@, st.new),
                                   !.events = Append(@, "fetch")]
           /\ log' = log \cup
                {"summary_read" : i \in
                   {j \in (Len(hist.order) + 1) .. Len(st.order) :
                      summaries[st.order[j]] = BadJson}}
           /\ pc' = IF st.raised THEN "mark" ELSE AfterPage(st.found, consecutive)
  /\ UNCHANGED <<main, got, other, call, remote, summaries, seen_file, seen_papers, args, result,
                 ncalls, prev>>

\* The request delivers the page of the remote list at start_index.
FetchPage == ProcessPage(Page(start_index, args.request_size))

\* time.sleep(timeout_seconds)
Sleep ==
  /\ pc = "sleep"
  /\ pc' = "while"
  /\ hist' = [hist EXCEPT !.events = Append(@, "sleep")]
  /\ UNCHANGED <<main, got, other, log, call, remote, summaries, seen_file, seen_papers, args, found_papers,
                 seen_in_this_run, start_index, consecutive_seen_requests,
                 result, ncalls, prev>>

\* Mutation: the papers are marked only when the ledger file could be
\* written.
MarkAndReturn_MarksIfWritten ==
  /\ pc = "mark"
  /\ \E written \in BOOLEAN :
       /\ seen_papers' =
            IF written THEN MarkedLedger(found_papers, ncalls) ELSE seen_papers
       /\ seen_file' = IF written THEN LedgerFile(seen_papers') ELSE seen_file
       /\ log' = IF written THEN log ELSE log \cup {"seen_papers_save"}
  /\ hist' = [hist EXCEPT !.nsaves = @ + 1]
  /\ result' = found_papers
  /\ pc' = "idle"
  /\ UNCHANGED <<main, got, other, call, remote, summaries, args, found_papers, seen_in_this_run,
                 start_index, consecutive_seen_requests, ncalls, prev>>

\* Mutation: with nothing found there is nothing to save.
MarkAndReturn_SavesIfFound ==
  /\ pc = "mark"
  /\ seen_papers' = MarkedLedger(found_papers, ncalls)
  /\ \E written \in BOOLEAN :
       /\ seen_file' =
            IF written /\ found_papers # <<>>
            THEN LedgerFile(seen_papers') ELSE seen_file
       /\ log' = IF written \/ found_papers = <<>>
                 THEN log ELSE log \cup {"seen_papers_save"}
  /\ hist' = [hist EXCEPT !.nsaves = IF found_papers # <<>> THEN @ + 1 ELSE @]
  /\ result' = found_papers
  /\ pc' = "idle"
  /\ UNCHANGED <<main, got, other, call, remote, summaries, args, found_papers, seen_in_this_run,
                 start_index, consecutive_seen_requests, ncalls, prev>>

\* Mutation: the ledger file is read again and the papers are added to what
\* it holds.
MarkAndReturn_Merges ==
  /\ pc = "mark"
  /\ seen_papers' = MarkedLedger(found_papers, ncalls)
  /\ \E written \in BOOLEAN :
       /\ seen_file' =
            IF written
            THEN LedgerFile([k \in DOMAIN _load_seen_papers(seen_file)
                                     \cup DOMAIN seen_papers' |->
                               IF k \in DOMAIN seen_papers'
                               THEN seen_papers'[k]
                               ELSE _load_seen_papers(seen_file)[k]])
            ELSE seen_file
       /\ log' = IF written THEN log ELSE log \cup {"seen_papers_save"}
  /\ hist' = [hist EXCEPT !.nsaves = @ + 1]
  /\ result' = found_papers
  /\ pc' = "idle"
  /\ UNCHANGED <<main, got, other, call, remote, summaries, args, found_papers, seen_in_this_run,
                 start_index, consecutive_seen_requests, ncalls, prev>>

\* mark_papers_as_seen(found_papers), then return found_papers.  The write
\* of the ledger file may fail (IOError), which _save_seen_papers only logs.
MarkAndReturn ==
  /\ pc = "mark"
  /\ seen_papers' = MarkedLedger(found_papers, ncalls)
  /\ \E written \in BOOLEAN :
       /\ seen_file' = IF written THEN LedgerFile(seen_papers') ELSE seen_file
       /\ log' = IF written THEN log ELSE log \cup {"seen_papers_save"}
  /\ hist' = [hist EXCEPT !.nsaves = @ + 1]
  /\ result' = found_papers
  /\ pc' = "idle"
  /\ UNCHANGED <<main, got, other, call, remote, summaries, args, found_papers, seen_in_this_run,
                 start_index, consecutive_seen_requests, ncalls, prev>>

Next ==
  \/ SearchNoQuery
  \/ SearchStart
  \/ LoopExit
  \/ FetchFail
  \/ FetchEmpty
  \/ FetchPage
  \/ Sleep
  \/ MarkAndReturn

Spec == Init /\ [][Next]_vars

\* ------------------------------------------------ repeated invocations

\* search_papers is called again and again with the same arguments and no
\* request fails.  The call counter stops at MaxCalls, so that later calls
\* stamp the ledger with the same date.
SearchAgainNoQuery == NoQueryCall(Min(ncalls + 1, MaxCalls))

SearchAgain == StartCall(Min(ncalls + 1, MaxCalls))

NextRepeated ==
  \/ SearchAgainNoQuery
  \/ SearchAgain
  \/ LoopExit
  \/ FetchEmpty
  \/ FetchPage
  \/ Sleep
  \/ MarkAndReturn

\* The engine was constructed from a readable ledger file, and the cache
\* holds what save_summary_to_file writes: files of enriched records.
InitRepeated ==
  /\ Init
  /\ seen_file.kind = "json"
  /\ \A i \in IDs :
       summaries[i] = NoFile
         \/ (summaries[i].kind = "json" /\ Enriched(_load_summary_from_file(i)))

\* The program is sequential: a call that has started runs to its return,
\* and the caller keeps calling.
SpecRepeated ==
  InitRepeated /\ [][NextRepeated]_vars /\ WF_vars(NextRepeated)

\* ------------------------------------------- the other engine operations

\* The locals and the observations of search_papers do not outlive the call:
\* another operation starts from a clean slate.
SearchForgotten ==
  /\ found_papers' = <<>>
  /\ seen_in_this_run' = {}
  /\ start_index' = 0
  /\ consecutive_seen_requests' = 0
  /\ result' = <<>>
  /\ hist' = NoHist
  /\ prev' = NoPrev

\* Mutation: the ledger is started over with the id.
MarkedIfAbsent_StartsOver(paper_id, now) ==
  IF paper_id \notin DOMAIN seen_papers
  THEN [k \in {paper_id} |-> now]
  ELSE seen_papers

\* Mutation: the date of a known id is refreshed.
MarkedIfAbsent_Always(paper_id, now) ==
  [k \in DOMAIN seen_papers \cup {paper_id} |->
     IF k = paper_id THEN now ELSE seen_papers[k]]

\* Mutation: get_paper_by_id leaves the ledger alone.
MarkedIfAbsent_Never(paper_id, now) == seen_papers

\* "if paper_id not in self.seen_papers: self.seen_papers[paper_id] = now"
MarkedIfAbsent(paper_id, now) ==
  IF paper_id \notin DOMAIN seen_papers
  THEN [k \in DOMAIN seen_papers \cup {paper_id} |->
          IF k = paper_id THEN now ELSE seen_papers[k]]
  ELSE seen_papers

\* What the remote service answers to Search(id_list=[paper_id]): the
\* record, nothing (StopIteration), or a failed request.  A record of the
\* result list exists.
Responses(paper_id) ==
  IF paper_id \in {remote[i] : i \in DOMAIN remote}
  THEN {"found", "error"}
  ELSE {"found", "not_found", "error"}

\* Mutation: the ledger is saved before the id is marked.
ReturnPaper_SavesFirst(paper_id, paper_data, requests, response) ==
  /\ seen_papers' = MarkedIfAbsent(paper_id, ncalls + 1)
  /\ \E written \in BOOLEAN :
       /\ seen_file' =
            IF paper_id \notin DOMAIN seen_papers /\ written
            THEN LedgerFile(seen_papers)
            ELSE seen_file
       /\ log' =
            {"summary_read" : i \in {j \in {paper_id} : summaries[j] = BadJson}}
            \cup {"seen_papers_save" : b \in
                    {c \in {written} : paper_id \notin DOMAIN seen_papers /\ ~c}}
  /\ call' = [op |-> "get_paper_by_id", paper_id |-> paper_id,
              requests |-> requests, response |-> response,
              outcome |-> "returned", value |-> paper_data,
              nsaves |-> IF paper_id \notin DOMAIN seen_papers THEN 1 ELSE 0,
              was_seen |-> paper_id \in DOMAIN seen_papers]
  /\ got' = got \cup {paper_id}

\* The end of a get_paper_by_id call that has a paper to return: the id is
\* marked if the ledger does not hold it, and only then the ledger is saved.
ReturnPaper(paper_id, paper_data, requests, response) ==
  /\ seen_papers' = MarkedIfAbsent(paper_id, ncalls + 1)
  /\ \E written \in BOOLEAN :
       /\ seen_file' =
            IF paper_id \notin DOMAIN seen_papers /\ written
            THEN LedgerFile(seen_papers')
            ELSE seen_file
       /\ log' =
            {"summary_read" : i \in {j \in {paper_id} : summaries[j] = BadJson}}
            \cup {"seen_papers_save" : b \in
                    {c \in {written} : paper_id \notin DOMAIN seen_papers /\ ~c}}
  /\ call' = [op |-> "get_paper_by_id", paper_id |-> paper_id,
              requests |-> requests, response |-> response,
              outcome |-> "returned", value |-> paper_data,
              nsaves |-> IF paper_id \notin DOMAIN seen_papers THEN 1 ELSE 0,
              was_seen |-> paper_id \in DOMAIN seen_papers]
  /\ got' = got \cup {paper_id}

\* Mutation: every exception of the request is caught and None returned.
ReturnNothing_CatchAll(paper_id, response) ==
  /\ log' = {"summary_read" : i \in {j \in {paper_id} : summaries[j] = BadJson}}
  /\ call' = [op |-> "get_paper_by_id", paper_id |-> paper_id,
              requests |-> 1, response |-> response,
              outcome |-> "none",
              value |-> NoPaper, nsaves |-> 0,
              was_seen |-> paper_id \in DOMAIN seen_papers]
  /\ UNCHANGED <<main, got, other, seen_papers, seen_file>>

\* The end of a get_paper_by_id call that has none: "return None" after
\* StopIteration, or the exception of the failed request, which nothing in
\* get_paper_by_id catches.
ReturnNothing(paper_id, response) ==
  /\ log' = {"summary_read" : i \in {j \in {paper_id} : summaries[j] = BadJson}}
  /\ call' = [op |-> "get_paper_by_id", paper_id |-> paper_id,
              requests |-> 1, response |-> response,
              outcome |-> IF response = "not_found" THEN "none" ELSE "raised",
              value |-> NoPaper, nsaves |-> 0,
              was_seen |-> paper_id \in DOMAIN seen_papers]
  /\ UNCHANGED <<main, got, other, seen_papers, seen_file>>

\* The end of a get_paper_by_id call in which _load_summary_from_file
\* raised: nothing in get_paper_by_id catches the exception, and no request
\* was made.
RaiseFromCache(paper_id) ==
  /\ log' = {}
  /\ call' = [op |-> "get_paper_by_id", paper_id |-> paper_id,
              requests |-> 0, response |-> "unused", outcome |-> "raised",
              value |-> NoPaper, nsaves |-> 0,
              was_seen |-> paper_id \in DOMAIN seen_papers]
  /\ UNCHANGED <<got, seen_papers, seen_file>>

\* get_paper_by_id(paper_id)
GetPaperById ==
  /\ pc = "idle"
  /\ ncalls < MaxCalls
  /\ ncalls' = ncalls + 1
  /\ \E paper_id \in IDs :
       LET existing_summary_paper == _load_summary_from_file(paper_id)
       IN  IF LoadRaises(paper_id)
           THEN RaiseFromCache(paper_id)
           ELSE IF HasSummary(existing_summary_paper)
           THEN ReturnPaper(paper_id, existing_summary_paper, 0, "unused")
           ELSE \E response \in Responses(paper_id) :
                  IF response = "found"
                  THEN ReturnPaper(paper_id, _convert_result(RawResult(paper_id)),
                                   1, response)
                  ELSE ReturnNothing(paper_id, response)
  /\ SearchForgotten
  /\ UNCHANGED <<main, other, remote, summaries, pc, args>>

\* The PaperData objects a caller hands to save_summary_to_file: records of
\* the remote service, with or without a summary, with or without a DOI.
SavedPapers ==
  {[PaperData(i, "api", s) EXCEPT !.doi = d] :
     i \in IDs, s \in SummaryValues, d \in {None, <<"10.1", "/", "x">>}}

\* The file after open(..., 'w') and json.dump: written, or on IOError
\* untouched (open failed) or cut short (the write failed).
WriteOutcomes == {"written", "untouched", "truncated"}

\* Mutation: a write that fails removes the file.
WrittenFile_Unlinks(paper_data, outcome, file) ==
  IF outcome = "written" THEN JsonFile(paper_data) ELSE NoFile

\* The file of a record after save_summary_to_file wrote it with the given
\* outcome.
WrittenFile(paper_data, outcome, file) ==
  IF outcome = "written" THEN JsonFile(paper_data)
  ELSE IF outcome = "truncated" THEN BadJson
  ELSE file

\* Mutation: the file is named after the other record.
SummaryFile_Other(paper_data) == CHOOSE k \in IDs : k # paper_data.id

\* The summary file of a record, SUMMARIES_DIR/<paper_data.id>.json, named
\* by the id _load_summary_from_file would find it under.
SummaryFile(paper_data) == paper_data.id

\* save_summary_to_file(paper_data)
SaveSummaryToFile ==
  /\ pc = "idle"
  /\ ncalls < MaxCalls
  /\ ncalls' = ncalls + 1
  /\ \E paper_data \in SavedPapers :
       IF ~Enriched(paper_data)
       THEN /\ summaries' = summaries
            /\ log' = {}
            /\ call' = [op |-> "save_summary_to_file", value |-> paper_data,
                        outcome |-> "skipped"]
       ELSE \E outcome \in WriteOutcomes :
              /\ summaries' =
                   [summaries EXCEPT ![SummaryFile(paper_data)] =
                      WrittenFile(paper_data, outcome, @)]
              /\ log' = IF outcome = "written" THEN {} ELSE {"summary_save"}
              /\ call' = [op |-> "save_summary_to_file", value |-> paper_data,
                          outcome |-> outcome]
  /\ SearchForgotten
  /\ UNCHANGED <<main, got, other, remote, seen_file, seen_papers, pc, args>>

\* The lists a caller hands to mark_papers_as_seen: empty, or one element
\* that is a paper or None.
MarkedLists ==
  {<<>>, <<NoPaper>>} \cup {<<PaperData(i, "api", None)>> : i \in IDs}

\* "if paper_data:"
IsPaper(paper_data) == paper_data # NoPaper

\* mark_papers_as_seen(papers), called by the user of the engine.
MarkPapersAsSeen ==
  /\ pc = "idle"
  /\ ncalls < MaxCalls
  /\ ncalls' = ncalls + 1
  /\ \E papers \in MarkedLists :
       /\ seen_papers' = MarkedLedger(SelectSeq(papers, IsPaper), ncalls + 1)
       /\ call' = [op |-> "mark_papers_as_seen", value |-> papers, nsaves |-> 1]
  /\ \E written \in BOOLEAN :
       /\ seen_file' = IF written THEN LedgerFile(seen_papers') ELSE seen_file
       /\ log' = IF written THEN {} ELSE {"seen_papers_save"}
  /\ SearchForgotten
  /\ UNCHANGED <<main, got, other, remote, summaries, pc, args>>

NextEngine ==
  \/ SearchStart
  \/ LoopExit
  \/ FetchFail
  \/ FetchEmpty
  \/ FetchPage
  \/ Sleep
  \/ MarkAndReturn
  \/ GetPaperById
  \/ SaveSummaryToFile
  \/ MarkPapersAsSeen

\* An engine that is given criteria and asked for as many papers as may be,
\* on a remote list of at most two results.
InitEngine ==
  /\ Init
  /\ query # <<>>
  /\ args.max_results = MaxResultsArg
  /\ Len(remote) <= 2

\* Any sequence of search_papers, get_paper_by_id, save_summary_to_file and
\* mark_papers_as_seen calls on one engine.
SpecEngine == InitEngine /\ [][NextEngine]_vars

\* ------------------------------------------------- the query builders

\* Search terms: a word and a phrase.
Terms == {<<"llm">>, <<"deep", " ", "nets">>}

Cats == {"cs.AI", "cs.LG"}

\* None, or a list of at most MaxList elements of S.
OptionalLists(S) ==
  {NoList} \cup {ListOf(l) : l \in UNION {[1 .. n -> S] : n \in 0 .. MaxList}}

\* A fresh engine with nothing on disk, and the criteria of a query.
InitQuery ==
  /\ remote = <<>>
  /\ summaries = [i \in IDs |-> NoFile]
  /\ seen_file = NoLedgerFile
  /\ seen_papers = _load_seen_papers(seen_file)
  /\ pc = "idle"
  /\ args \in {[search_terms |-> t, categories |-> c, max_results |-> 1,
                 request_size |-> 1] :
                 t \in OptionalLists(Terms), c \in OptionalLists(Cats)}
  /\ found_papers = <<>>
  /\ seen_in_this_run = {}
  /\ start_index = 0
  /\ consecutive_seen_requests = 0
  /\ result = <<>>
  /\ ncalls = 0
  /\ hist = NoHist
  /\ prev = NoPrev
  /\ log = LoadWarning(seen_file)
  /\ call = NoCall
  /\ main = NoRun
  /\ got = {}
  /\ other = NoOther

\* _construct_query(search_terms, categories)
ConstructQuery ==
  /\ pc = "idle"
  /\ call' = [op |-> "_construct_query",
              value |-> _construct_query(args.search_terms, args.categories)]
  /\ UNCHANGED <<main, got, other, remote, summaries, seen_file, seen_papers, pc, args,
                 found_papers, seen_in_this_run, start_index,
                 consecutive_seen_requests, result, ncalls, hist, prev, log>>

\* search(search_terms, categories), up to the query it prints.
SearchQuery ==
  /\ pc = "idle"
  /\ call' = [op |-> "search",
              value |-> search_query(args.search_terms, args.categories)]
  /\ UNCHANGED <<main, got, other, remote, summaries, seen_file, seen_papers, pc, args,
                 found_papers, seen_in_this_run, start_index,
                 consecutive_seen_requests, result, ncalls, hist, prev, log>>

NextQuery ==
  \/ ConstructQuery
  \/ SearchQuery

\* The two query builders applied to every pair of criteria.
SpecQuery == InitQuery /\ [][NextQuery]_vars

\* ------------------------------------------------------- the conversion

\* The results a conversion is given: of either record, with or without a
\* DOI, the pdf_url an http or an https link, None, or no attribute at all.
ConvertedResults ==
  LET plain == {[RawResult(i) EXCEPT !.doi = d] :
                  i \in IDs, d \in {None, <<"10.1", "/", "x">>}}
      urls(i) == {None} \cup
                 {PdfUrl(scheme, host, i, suffix) :
                    scheme \in {Http, Https},
                    host \in {"arxiv.org", "export.arxiv.org"},
                    suffix \in {"", "v1", ".pdf"}}
  IN  {[r EXCEPT !.pdf_url = u] : r \in plain, u \in UNION {urls(i) : i \in IDs}}
      \cup {[k \in {"entry_id", "title", "doi"} |-> r[k]] : r \in plain}

\* A fresh engine with nothing on disk, and a result to convert.
InitConvert ==
  /\ InitQuery
  /\ args.search_terms = NoList
  /\ args.categories = NoList

\* _convert_result(result)
ConvertResult ==
  /\ pc = "idle"
  /\ \E r \in ConvertedResults :
       call' = IF ConvertRaises(r)
               THEN [op |-> "_convert_result", given |-> r,
                     outcome |-> "raised", value |-> NoPaper]
               ELSE [op |-> "_convert_result", given |-> r,
                     outcome |-> "returned", value |-> _convert_result(r)]
  /\ UNCHANGED <<main, got, other, remote, summaries, seen_file, seen_papers, pc, args,
                 found_papers, seen_in_this_run, start_index,
                 consecutive_seen_requests, result, ncalls, hist, prev, log>>

NextConvert == ConvertResult

\* _convert_result applied to every result.
SpecConvert == InitConvert /\ [][NextConvert]_vars

\* ---------------------------------------------------------- run_once.main

\* The summary the LLM gives.
LlmSummary == <<"l", "l", "m">>

\* PaperSummarizer.summarize_papers(papers): an enriched record is kept as
\* it is, without a request to the LLM; any other record gets a summary from
\* one request, or is dropped when it has no usable PDF URL.  usable[k] says
\* whether the k-th record has one.
RECURSIVE summarize_papers(_, _)
summarize_papers(papers, usable) ==
  IF papers = <<>> THEN [papers |-> <<>>, requests |-> 0]
  ELSE LET paper == Head(papers)
           rest == summarize_papers(Tail(papers), Tail(usable))
       IN  IF Enriched(paper)
           THEN [papers |-> <<paper>> \o rest.papers, requests |-> rest.requests]
           ELSE IF Head(usable)
           THEN [papers |-> <<[paper EXCEPT !.summary = LlmSummary]>> \o rest.papers,
                 requests |-> rest.requests + 1]
           ELSE rest

\* EmailSender.send_email(...) returns success or failure.
send_email == BOOLEAN

\* main calls search_papers once, on a new ArxivClient.
MainSearchNoQuery == ncalls = 0 /\ NoQueryCall(1)

MainSearch == ncalls = 0 /\ StartCall(1)

\* search_papers has returned: main summarizes what it returned, if anything.
Summarize ==
  /\ main.at = "start"
  /\ pc = "idle"
  /\ ncalls = 1
  /\ IF result = <<>>
     THEN main' = [main EXCEPT !.at = "done"]
     ELSE \E usable \in [DOMAIN result -> BOOLEAN] :
            LET out == summarize_papers(result, usable)
            IN  main' = [main EXCEPT
                           !.at = IF out.papers = <<>> THEN "done" ELSE "save",
                           !.paper_summaries = out.papers,
                           !.llm_requests = out.requests]
  /\ UNCHANGED <<got, other, remote, summaries, seen_file, seen_papers, pc, args,
                 found_papers, seen_in_this_run, start_index,
                 consecutive_seen_requests, result, ncalls, hist, prev, log,
                 call>>

\* The records of paper_summaries that main hands to save_summary_to_file
\* and that it writes.
Saved(paper_summaries) ==
  {k \in DOMAIN paper_summaries :
     Truthy(paper_summaries[k].summary) /\ Enriched(paper_summaries[k])}

\* The loop over paper_summaries that saves every record with a summary.
SaveSummaries ==
  /\ main.at = "save"
  /\ \E outcome \in [Saved(main.paper_summaries) -> WriteOutcomes] :
       LET last(i) == SetMax({k \in Saved(main.paper_summaries) :
                                main.paper_summaries[k].id = i})
       IN  /\ summaries' =
                [i \in IDs |->
                   IF last(i) = 0 THEN summaries[i]
                   ELSE WrittenFile(main.paper_summaries[last(i)],
                                    outcome[last(i)], summaries[i])]
           /\ log' = IF \A k \in DOMAIN outcome : outcome[k] = "written"
                     THEN log ELSE log \cup {"summary_save"}
           /\ main' = [main EXCEPT
                          !.at = "send",
                          !.written = {main.paper_summaries[k].id :
                                         k \in {j \in DOMAIN outcome :
                                                  outcome[j] = "written"}},
                          !.committed = [summaries |-> summaries',
                                         seen_papers |-> seen_papers,
                                         seen_file |-> seen_file]]
  /\ UNCHANGED <<got, other, remote, seen_file, seen_papers, pc, args, found_papers,
                 seen_in_this_run, start_index, consecutive_seen_requests,
                 result, ncalls, hist, prev, call>>

\* The stores after send_email returned: main only prints the outcome, but
\* here a failure removes what the run wrote.
AfterSend_RollBack(email_success) ==
  IF email_success
  THEN [summaries |-> summaries, seen_papers |-> seen_papers,
        seen_file |-> seen_file]
  ELSE [summaries |-> [i \in IDs |-> IF i \in main.written THEN NoFile
                                     ELSE summaries[i]],
        seen_papers |-> [k \in hist.seen0 |-> seen_papers[k]],
        seen_file |-> seen_file]

\* The stores after send_email returned: main only prints the outcome.
AfterSend(email_success) ==
  [summaries |-> summaries, seen_papers |-> seen_papers,
   seen_file |-> seen_file]

\* main sends one email with paper_summaries and ends.
SendEmail ==
  /\ main.at = "send"
  /\ \E email_success \in send_email :
       /\ main' = [main EXCEPT
                      !.at = "done",
                      !.emails = Append(@, main.paper_summaries),
                      !.email_success = email_success]
       /\ summaries' = AfterSend(email_success).summaries
       /\ seen_papers' = AfterSend(email_success).seen_papers
       /\ seen_file' = AfterSend(email_success).seen_file
  /\ UNCHANGED <<got, other, remote, pc, args, found_papers, seen_in_this_run,
                 start_index, consecutive_seen_requests, result, ncalls, hist,
                 prev, log, call>>

NextRun ==
  \/ MainSearchNoQuery
  \/ MainSearch
  \/ LoopExit
  \/ FetchFail
  \/ FetchEmpty
  \/ FetchPage
  \/ Sleep
  \/ MarkAndReturn
  \/ Summarize
  \/ SaveSummaries
  \/ SendEmail

\* A run against a remote list of at most two results.
InitRun ==
  /\ Init
  /\ Len(remote) <= 2

SpecRun == InitRun /\ [][NextRun]_vars

\* -------------------------------------------------- a later run of main

\* Mutation: the new process starts with an empty ledger.
LaterLedger_Empty(file) == [k \in {} |-> 0]

\* The ledger of the ArxivClient a later process builds: read from the file.
LaterLedger(file) == _load_seen_papers(file)

\* main has ended and is run again, against the same remote list: a new
\* ArxivClient reads the ledger file, and search_papers is called on it with
\* the same configuration.  prev keeps what the search of the first run
\* returned, main what the first run did with it.
MainAgain ==
  /\ main.at = "done"
  /\ pc = "idle"
  /\ ncalls = 1
  /\ query # <<>>
  /\ seen_papers' = LaterLedger(seen_file)
  /\ prev' = Remember
  /\ ncalls' = 2
  /\ hist' = [NoHist EXCEPT !.seen0 = DOMAIN seen_papers']
  /\ found_papers' = <<>>
  /\ seen_in_this_run' = {}
  /\ start_index' = 0
  /\ consecutive_seen_requests' = 0
  /\ pc' = "while"
  /\ log' = {}
  /\ call' = NoCall
  /\ UNCHANGED <<main, got, other, remote, summaries, seen_file, args, result>>

NextRuns ==
  \/ MainSearch
  \/ LoopExit
  \/ FetchFail
  \/ FetchEmpty
  \/ FetchPage
  \/ Sleep
  \/ MarkAndReturn
  \/ Summarize
  \/ SaveSummaries
  \/ SendEmail
  \/ MainAgain

\* Runs that are configured with criteria.
InitRuns ==
  /\ InitRun
  /\ query # <<>>

\* A run of main, and the search of the run after it.
SpecRuns == InitRuns /\ [][NextRuns]_vars

\* ------------------------------------- records that cannot be processed

\* Longest remote list of the faulty service.
FaultyRemoteLen == 3

\* The records for which the service gives a result without a PDF link
\* (pdf_url None), which _convert_result cannot convert.
BrokenIds == {2}

FaultyResult(i) ==
  IF i \in BrokenIds THEN [RawResult(i) EXCEPT !.pdf_url = None] ELSE RawResult(i)

\* The page the faulty service delivers.
FaultyPage(offset, size) ==
  [k \in DOMAIN Page(offset, size) |-> FaultyResult(remote[offset + k])]

FetchFaultyPage == ProcessPage(FaultyPage(start_index, args.request_size))

\* An engine given criteria, on a summaries directory where a file is
\* missing, holds a record with a summary, or holds JSON that is no
\* PaperData, against any remote list of the faulty service.
InitFaulty ==
  /\ remote \in UNION {[1 .. n -> IDs] : n \in 0 .. FaultyRemoteLen}
  /\ summaries \in [IDs -> {NoFile} \cup {MismatchFile(i) : i \in IDs}
                           \cup {JsonFile(PaperData(i, "file", <<"s">>)) : i \in IDs}]
  /\ \A i \in IDs : summaries[i] \in {NoFile, MismatchFile(i),
                                       JsonFile(PaperData(i, "file", <<"s">>))}
  /\ seen_file \in {NoLedgerFile} \cup {LedgerFile(m) : m \in Ledgers}
  /\ seen_papers = _load_seen_papers(seen_file)
  /\ pc = "idle"
  /\ args \in {a \in ArgSets : ListTruthy(a.search_terms) /\ a.max_results > 0}
  /\ found_papers = <<>>
  /\ seen_in_this_run = {}
  /\ start_index = 0
  /\ consecutive_seen_requests = 0
  /\ result = <<>>
  /\ ncalls = 0
  /\ hist = NoHist
  /\ prev = NoPrev
  /\ log = LoadWarning(seen_file)
  /\ call = NoCall
  /\ main = NoRun
  /\ got = {}
  /\ other = NoOther

NextFaulty ==
  \/ SearchStart
  \/ LoopExit
  \/ FetchFail
  \/ FetchEmpty
  \/ FetchFaultyPage
  \/ Sleep
  \/ MarkAndReturn
  \/ GetPaperById

\* search_papers and get_paper_by_id calls on records that cannot be
\* processed.
SpecFaulty == InitFaulty /\ [][NextFaulty]_vars

\* ------------------------------------------- two engines on one ledger

\* The state of an ArxivClient that has just been constructed while the
\* ledger file held file.
NewClient(name, file) ==
  [name |-> name, seen_papers |-> _load_seen_papers(file), pc |-> "idle",
   found_papers |-> <<>>, seen_in_this_run |-> {}, start_index |-> 0,
   consecutive_seen_requests |-> 0, result |-> <<>>, ncalls |-> 0,
   hist |-> NoHist, log |-> LoadWarning(file)]

\* Two processes have each constructed an ArxivClient on the same ledger
\* file and are given the same criteria.  The variables of the engine hold
\* the state of A, the client that runs first; other holds B.
InitTwo ==
  /\ remote \in {s \in RemoteLists : Len(s) <= 2}
  /\ summaries = [i \in IDs |-> NoFile]
  /\ seen_file \in {NoLedgerFile} \cup {LedgerFile(m) : m \in Ledgers}
  /\ seen_papers = _load_seen_papers(seen_file)
  /\ pc = "idle"
  /\ args \in {a \in ArgSets : ListTruthy(a.search_terms) /\ a.max_results > 0}
  /\ found_papers = <<>>
  /\ seen_in_this_run = {}
  /\ start_index = 0
  /\ consecutive_seen_requests = 0
  /\ result = <<>>
  /\ ncalls = 0
  /\ hist = NoHist
  /\ prev = NoPrev
  /\ log = LoadWarning(seen_file)
  /\ call = NoCall
  /\ main = NoRun
  /\ got = {}
  /\ other = NewClient("B", seen_file)

\* The scheduler takes the process that runs off the processor and puts the
\* other one on: what is private to a process (the engine's ledger in memory,
\* the locals of its call, what it has returned) is exchanged; the remote
\* service and the files are shared.
Switch ==
  /\ other' = [name |-> IF other.name = "A" THEN "B" ELSE "A",
               seen_papers |-> seen_papers, pc |-> pc,
               found_papers |-> found_papers,
               seen_in_this_run |-> seen_in_this_run,
               start_index |-> start_index,
               consecutive_seen_requests |-> consecutive_seen_requests,
               result |-> result, ncalls |-> ncalls, hist |-> hist,
               log |-> log]
  /\ seen_papers' = other.seen_papers
  /\ pc' = other.pc
  /\ found_papers' = other.found_papers
  /\ seen_in_this_run' = other.seen_in_this_run
  /\ start_index' = other.start_index
  /\ consecutive_seen_requests' = other.consecutive_seen_requests
  /\ result' = other.result
  /\ ncalls' = other.ncalls
  /\ hist' = other.hist
  /\ log' = other.log
  /\ UNCHANGED <<main, got, remote, summaries, seen_file, args, prev, call>>

\* Each process calls search_papers once.
SearchOnce == ncalls = 0 /\ StartCall(1)

NextTwo ==
  \/ SearchOnce
  \/ LoopExit
  \/ FetchFail
  \/ FetchEmpty
  \/ FetchPage
  \/ Sleep
  \/ MarkAndReturn
  \/ Switch

\* Two processes, one search_papers call each, interleaved in every way.
SpecTwo == InitTwo /\ [][NextTwo]_vars

\* ------------------------------------------ a remote service without end

\* The pages a service may deliver to a request for size results.
AnyPages(size) ==
  {[k \in DOMAIN ids |-> RawResult(ids[k])] :
     ids \in UNION {[1 .. n -> IDs] : n \in 1 .. size}}

\* The request delivers some page, whatever the offset.
FetchAnyPage ==
  \E results \in AnyPages(args.request_size) : ProcessPage(results)

\* A service that answers every request as it likes: with a failure
\* (FetchFail), with nothing (FetchEmpty, its list being empty), or with any
\* page.
NextEndless ==
  \/ SearchStart
  \/ LoopExit
  \/ FetchFail
  \/ FetchEmpty
  \/ FetchAnyPage
  \/ Sleep
  \/ MarkAndReturn

\* The engine was constructed from a readable ledger file (a missing or
\* unreadable one loads as the empty mapping), and the call has criteria.
InitEndless ==
  /\ Init
  /\ remote = <<>>
  /\ query # <<>>
  /\ seen_file.kind = "json"

\* The program is sequential: a call that has started keeps running.
SpecEndless == InitEndless /\ [][NextEndless]_vars /\ WF_vars(NextEndless)

\* ----------------------------------------------------------------- claims

\* A call has returned, and result, hist and the locals are those of that call.
Returned == pc = "idle" /\ ncalls > 0

Ids(papers) == [i \in DOMAIN papers |-> papers[i].id]

Range(seq) == {seq[i] : i \in DOMAIN seq}

\* The cache file of k holds an enriched record.
EnrichedEntry(k) == summaries[k].kind = "json" /\ Enriched(_load_summary_from_file(k))

\* The identifiers of ids that are not in seen, each once, in order.
RECURSIVE NewInOrder(_, _)
NewInOrder(ids, seen) ==
  IF ids = <<>> THEN <<>>
  ELSE IF Head(ids) \in seen THEN NewInOrder(Tail(ids), seen)
  ELSE <<Head(ids)>> \o NewInOrder(Tail(ids), seen \cup {Head(ids)})

\* The identifiers on the first page of the remote list.
FirstPageIds == SubSeq(remote, 1, Min(args.request_size, Len(remote)))

\* The part of the remote list the call has been delivered.
Delivered == SubSeq(remote, 1, Min(start_index, Len(remote)))

C5_StallBound ==
  hist.fetched \subseteq hist.seen0 => hist.nfetch <= 3

\* C5 witness: a call with the largest quota stopped after 3 requests that
\* delivered only records of the ledger, with more of the remote list left.
C5_Witness ==
  /\ Returned
  /\ hist.nfetch = 3
  /\ hist.stop = "none"
  /\ hist.fetched # {}
  /\ hist.fetched \subseteq hist.seen0
  /\ args.max_results = MaxResultsArg
  /\ Len(remote) > 3 * args.request_size

\* C6: a paper accepted under an id whose cache file is enriched is that
\* cached record, field for field, and _convert_result was not called for it.
C6_CacheReuse ==
  \A i \in DOMAIN found_papers :
    EnrichedEntry(hist.order[i]) =>
      /\ found_papers[i] = _load_summary_from_file(hist.order[i])
      /\ hist.order[i] \notin hist.converted

\* C6 witness: a call returned a cached enriched record and, beside it, a
\* converted one.
C6_Witness ==
  /\ Returned
  /\ Len(result) = 2
  /\ \E i \in DOMAIN result :
       EnrichedEntry(hist.order[i]) /\ result[i] = _load_summary_from_file(hist.order[i])
  /\ hist.converted # {}

\* C7: a paper accepted under an id whose cache file is not enriched (no
\* file, summary None, empty or blank) is the conversion of the raw result.
C7_EnrichmentGatesReuse ==
  \A i \in DOMAIN found_papers :
    ~EnrichedEntry(hist.order[i]) =>
      found_papers[i] = _convert_result(RawResult(hist.order[i]))

\* C8: when a call returns, the keys of the ledger are the keys it had when
\* the call began and the ids accepted in the call, which are the ids of the
\* returned records.
C8_LedgerFrame ==
  Returned =>
    /\ DOMAIN seen_papers = hist.seen0 \cup seen_in_this_run
    /\ seen_in_this_run = Range(Ids(result))
    /\ seen_in_this_run = Range(hist.order)

\* C8 witness: a call returned a record while the ledger held another key.
C8_Witness ==
  /\ Returned
  /\ result # <<>>
  /\ hist.seen0 # {}
  /\ hist.seen0 \cap hist.fetched = {}

\* C9: a call returns at most max_results records; when the first page is
\* delivered and holds at least max_results (one or more) distinct records
\* that are not in the ledger, the call returns the first max_results of them
\* in the order of the page, with one request.
C9_Quota ==
  (Returned /\ query # <<>>) =>
    /\ Len(result) <= args.max_results
    /\ ( /\ args.max_results >= 1
         /\ ~(hist.stop = "fail" /\ hist.nfetch = 1)
         /\ Len(NewInOrder(FirstPageIds, hist.seen0)) >= args.max_results )
       => /\ Ids(result) =
               SubSeq(NewInOrder(FirstPageIds, hist.seen0), 1, args.max_results)
          /\ hist.nfetch = 1

\* C9 witness: the first page held two new records and the call, asked for
\* one, returned the first.
C9_Witness ==
  /\ Returned
  /\ args.max_results = 1
  /\ Len(NewInOrder(FirstPageIds, hist.seen0)) = 2
  /\ Len(result) = 1
  /\ hist.nfetch = 1

\* C10: a request that fails or delivers an empty page is the last of its
\* call: the call goes on to mark and return exactly what it had accepted.
C10_FailureEndsPagination ==
  [][ /\ (pc = "while" /\ hist'.stop # "none") =>
           (pc' = "mark" /\ found_papers' = found_papers)
      /\ (pc = "mark" /\ hist.stop # "none") =>
           /\ pc' = "idle"
           /\ hist'.nfetch = hist.nfetch
           /\ result' = found_papers
           /\ Range(Ids(found_papers)) \subseteq DOMAIN seen_papers' ]_vars

\* C10 witness: a call whose second or later request failed returned the
\* records of the earlier pages, short of its quota.
C10_Witness ==
  /\ Returned
  /\ hist.stop = "fail"
  /\ hist.nfetch >= 2
  /\ result # <<>>
  /\ Len(result) < args.max_results
  /\ Range(Ids(result)) \subseteq DOMAIN seen_papers

\* C3 as stated: the second of two calls made with the same arguments against
\* the same remote list, no request failing, returns nothing.
C3_SecondCallEmpty ==
  (Returned /\ prev.called /\ prev.stop # "fail" /\ hist.stop # "fail") =>
    result = <<>>

\* C3, amended: the second of two calls made with the same arguments against
\* the same remote list returns none of the records the first returned; and
\* it returns nothing when the first call, no request of it failing, ended
\* short of max_results.
C3_SecondCallDisjoint ==
  (Returned /\ prev.called) =>
    /\ Range(Ids(result)) \cap Range(Ids(prev.result)) = {}
    /\ (prev.stop # "fail" /\ Len(prev.result) < args.max_results) =>
         result = <<>>

\* C3 witness: the first call returned a record and ended short of its quota;
\* the second call issued requests and returned nothing.
C3_Witness ==
  /\ Returned
  /\ prev.called
  /\ prev.stop # "fail"
  /\ prev.result # <<>>
  /\ Len(prev.result) < args.max_results
  /\ hist.nfetch >= 1
  /\ hist.stop # "fail"
  /\ result = <<>>

\* The first three pages of the remote list.
FirstThreePages == SubSeq(remote, 1, Min(3 * args.request_size, Len(remote)))

NoCriteria == ~ListTruthy(args.search_terms) /\ ~ListTruthy(args.categories)

\* C11: when neither search terms nor categories are supplied, search_papers
\* returns the empty list, requests no page, and leaves the in-memory ledger
\* and the ledger file as they were.
C11_NoCriteriaNoEffect ==
  [][ NoCriteria =>
        /\ pc' = "idle"
        /\ result' = <<>>
        /\ hist'.nfetch = 0
        /\ seen_papers' = seen_papers
        /\ seen_file' = seen_file ]_vars

\* C11 witness: a call with an empty list of terms and no categories has
\* returned nothing, although the remote list holds a record the ledger
\* does not know.
C11_Witness ==
  /\ Returned
  /\ args.search_terms = ListOf(<<>>)
  /\ args.categories = NoList
  /\ args.max_results >= 1
  /\ result = <<>>
  /\ hist.nfetch = 0
  /\ \E k \in Range(remote) : k \notin DOMAIN seen_papers

\* A summary that is not None and has a character that is not whitespace.
NonBlank(summary) ==
  summary # None /\ \E i \in DOMAIN summary : summary[i] # " "

\* C12: a cache file changes only in a save_summary_to_file call whose
\* record has a summary that is not None and not blank, and only the file
\* named by that record's id; what is written there is that record.  A call
\* with any other record changes no file.
C12_OnlyEnrichedWritten ==
  [][ /\ \A i \in IDs :
           summaries'[i] # summaries[i] =>
             /\ call'.op = "save_summary_to_file"
             /\ call'.value.id = i
             /\ NonBlank(call'.value.summary)
             /\ \/ /\ call'.outcome = "written"
                   /\ summaries'[i].kind = "json"
                   /\ from_dict(JsonLoad(summaries'[i].text)) = call'.value
                \/ /\ call'.outcome = "truncated"
                   /\ summaries'[i].kind = "malformed"
      /\ (call'.op = "save_summary_to_file" /\ ~NonBlank(call'.value.summary)) =>
           (summaries' = summaries /\ call'.outcome = "skipped") ]_vars

\* C12 witness: save_summary_to_file has written a record with a non-blank
\* summary, and the file of its id now holds it.
C12_Witness ==
  /\ call.op = "save_summary_to_file"
  /\ call.outcome = "written"
  /\ NonBlank(call.value.summary)
  /\ _load_summary_from_file(call.value.id) = call.value

\* C12 witness, the other case: a call with a whitespace-only summary was
\* skipped and the file of that id is still missing.
C12_SkipWitness ==
  /\ call.op = "save_summary_to_file"
  /\ call.outcome = "skipped"
  /\ call.value.summary = <<" ">>
  /\ summaries[call.value.id] = NoFile

C14_CacheFirst ==
  (call.op = "get_paper_by_id") =>
    IF EnrichedEntry(call.paper_id)
    THEN /\ call.outcome = "returned"
         /\ call.value = _load_summary_from_file(call.paper_id)
         /\ call.requests = 0
         /\ call.paper_id \in DOMAIN seen_papers
    ELSE /\ call.requests = 1
         /\ (call.response = "found") =>
              /\ call.outcome = "returned"
              /\ call.value = _convert_result(RawResult(call.paper_id))
              /\ call.paper_id \in DOMAIN seen_papers

\* C15: get_paper_by_id calls _save_seen_papers exactly when it returns a
\* paper whose id the ledger did not hold, and then once; the ledger file
\* changes only by that write.  When the ledger holds the id, the ledger, the
\* stored date with it, and the ledger file stay as they were.
C15_WriteIffNew ==
  [][ (call'.op = "get_paper_by_id") =>
        /\ call'.nsaves =
             IF call'.outcome = "returned" /\ call'.paper_id \notin DOMAIN seen_papers
             THEN 1 ELSE 0
        /\ (call'.nsaves = 0) => seen_file' = seen_file
        /\ (call'.nsaves = 1) => seen_file' \in {seen_file, LedgerFile(seen_papers')}
        /\ (call'.paper_id \in DOMAIN seen_papers) =>
             (seen_papers' = seen_papers /\ seen_file' = seen_file) ]_vars

\* C15 witness: a call for an id the ledger did not hold fetched the record
\* and wrote the ledger file, which now holds the id.
C15_Witness ==
  /\ call.op = "get_paper_by_id"
  /\ call.outcome = "returned"
  /\ ~call.was_seen
  /\ call.nsaves = 1
  /\ seen_file = LedgerFile(seen_papers)
  /\ call.paper_id \in DOMAIN seen_papers
  /\ seen_papers[call.paper_id] = ncalls

\* C15 witness, the other case: a call for an id the ledger held returned a
\* paper and saved nothing; the date of the id is the one of the file the
\* engine was constructed from.
C15_KnownWitness ==
  /\ call.op = "get_paper_by_id"
  /\ call.outcome = "returned"
  /\ call.was_seen
  /\ call.nsaves = 0
  /\ seen_papers[call.paper_id] = 0
  /\ ncalls >= 1

\* C16: when the remote service has no record for the id, get_paper_by_id
\* returns None; when the request fails, the call ends with an exception
\* instead of a return value; in both cases the ledger and the ledger file
\* stay as they were.
C16_NotFoundIsNotFailure ==
  [][ (call'.op = "get_paper_by_id") =>
        /\ (call'.response = "not_found") =>
             (call'.outcome = "none" /\ call'.value = NoPaper)
        /\ (call'.response = "error") => call'.outcome = "raised"
        /\ (call'.response \in {"not_found", "error"}) =>
             (seen_papers' = seen_papers /\ seen_file' = seen_file) ]_vars

\* C16 witness: a request for an id the ledger does not hold failed; the
\* call raised and the id is still not in the ledger.
C16_Witness ==
  /\ call.op = "get_paper_by_id"
  /\ call.response = "error"
  /\ call.outcome = "raised"
  /\ call.paper_id \notin DOMAIN seen_papers

\* C16 witness, the other case: the remote service had no record; the call
\* returned None and the id is still not in the ledger.
C16_NotFoundWitness ==
  /\ call.op = "get_paper_by_id"
  /\ call.response = "not_found"
  /\ call.outcome = "none"
  /\ call.value = NoPaper
  /\ call.paper_id \notin DOMAIN seen_papers

\* C17: no step of a search_papers, get_paper_by_id or mark_papers_as_seen
\* call on an engine removes a key from its in-memory ledger.
C17_LedgerGrowsOnly ==
  [][ DOMAIN seen_papers \subseteq DOMAIN seen_papers' ]_vars

\* C17 witness: two operations each added an id to the ledger, the second
\* a get_paper_by_id or mark_papers_as_seen call, and the id of the first is
\* still there.
C17_Witness ==
  /\ call.op \in {"get_paper_by_id", "mark_papers_as_seen"}
  /\ \E k1, k2 \in DOMAIN seen_papers :
       seen_papers[k1] = 1 /\ seen_papers[k2] = 2

\* C17 witness, search_papers: a call that followed another operation added
\* an id, and the id that operation added is still there.
C17_SearchWitness ==
  /\ pc = "idle"
  /\ hist.nfetch > 0
  /\ \E k1, k2 \in DOMAIN seen_papers :
       seen_papers[k1] = 1 /\ seen_papers[k2] = 2

\* C18: a search_papers call that has a query calls _save_seen_papers once,
\* whatever it found: not while it pages, and once by the time it returns.
\* The ledger file changes only in that step, to the ledger of that moment or
\* not at all.
C18_OneSavePerCall ==
  /\ (ncalls > 0 /\ hist.nsaves # (IF pc = "idle" THEN 1 ELSE 0)) =>
       query = <<>>
  /\ (pc = "idle" /\ hist.nsaves = 1) =>
       \/ seen_file = LedgerFile(seen_papers)
       \/ "seen_papers_save" \in log

\* C18 witness: a call requested pages, accepted nothing, and saved the
\* ledger once on its way out.
C18_Witness ==
  /\ Returned
  /\ query # <<>>
  /\ hist.nfetch >= 2
  /\ result = <<>>
  /\ hist.nsaves = 1
  /\ seen_file = LedgerFile(seen_papers)

\* The engine has been constructed and nothing has been called on it.
Constructed == pc = "idle" /\ ncalls = 0

\* C19 as stated: an engine constructed while the ledger file is missing or
\* malformed starts with an empty ledger, and a warning has been printed.
C19_EmptyLedgerAndWarning ==
  (Constructed /\ seen_file.kind \in {"missing", "malformed"}) =>
    /\ DOMAIN seen_papers = {}
    /\ "seen_papers_read" \in log

\* C19: an engine constructed while the ledger file is missing or malformed
\* starts with an empty ledger; a warning has been printed exactly when the
\* file exists and is malformed.
C19_EmptyLedgerWarnsOnMalformed ==
  (Constructed /\ seen_file.kind \in {"missing", "malformed"}) =>
    /\ DOMAIN seen_papers = {}
    /\ ("seen_papers_read" \in log) <=> (seen_file.kind = "malformed")

\* C19 witness: an engine constructed from a malformed ledger file, empty
\* ledger, warning printed.
C19_Witness ==
  /\ Constructed
  /\ seen_file = BadLedgerFile
  /\ DOMAIN seen_papers = {}
  /\ log = {"seen_papers_read"}

\* C19 witness, the other case: an engine constructed with no ledger file,
\* empty ledger, nothing printed.
C19_MissingWitness ==
  /\ Constructed
  /\ seen_file = NoLedgerFile
  /\ DOMAIN seen_papers = {}
  /\ log = {}

\* The cache file of k cannot be read: it is missing or malformed.
CacheReadFails(k) == summaries[k] \in {NoFile, BadJson}

\* C20: a cache file that is missing or malformed is a miss.  search_papers
\* accepts the candidate as the conversion of the remote result, and a call
\* in which no request failed still returns every new record of the list, in
\* order, up to max_results; get_paper_by_id makes its request, returns the
\* conversion of what the request delivers, and raises only when the request
\* fails.
C20_CacheFailureIsMiss ==
  /\ \A i \in DOMAIN hist.order :
       CacheReadFails(hist.order[i]) =>
         found_papers[i] = _convert_result(RawResult(hist.order[i]))
  /\ (/\ pc = "idle"
      /\ hist.nfetch > 0
      /\ hist.stop # "fail"
      /\ \E k \in Range(remote) \ hist.seen0 : CacheReadFails(k)) =>
       LET new == NewInOrder(remote, hist.seen0)
       IN  Ids(result) = SubSeq(new, 1, Min(args.max_results, Len(new)))
  /\ (call.op = "get_paper_by_id" /\ CacheReadFails(call.paper_id)) =>
       /\ call.requests = 1
       /\ (call.response = "found") =>
            /\ call.outcome = "returned"
            /\ call.value = _convert_result(RawResult(call.paper_id))
       /\ (call.outcome = "raised") => call.response = "error"

\* C20 witness: search_papers accepted a record whose cache file is
\* malformed, as the conversion of the remote result, and went on to accept
\* the next record of the list.
C20_Witness ==
  /\ pc = "idle"
  /\ Len(result) = 2
  /\ summaries[hist.order[1]] = BadJson
  /\ result[1] = _convert_result(RawResult(hist.order[1]))
  /\ "summary_read" \in log

\* C20 witness, get_paper_by_id: the cache file of the id is malformed, the
\* request delivered the record, and the call returned its conversion.
C20_GetWitness ==
  /\ call.op = "get_paper_by_id"
  /\ summaries[call.paper_id] = BadJson
  /\ call.response = "found"
  /\ call.outcome = "returned"
  /\ call.value = _convert_result(RawResult(call.paper_id))

\* ------------------------------------------------- claims C21 .. C30

\* C21: when the write of the ledger file fails in a search_papers call, the
\* call still returns the papers it accepted, the in-memory ledger holds
\* their ids, and the next call on the same engine returns none of them.
C21_FailedSaveKeepsMemory ==
  /\ (Returned /\ "seen_papers_save" \in log) =>
       /\ result = found_papers
       /\ Range(Ids(result)) \subseteq DOMAIN seen_papers
  /\ (Returned /\ prev.called /\ "seen_papers_save" \in prev.log) =>
       /\ Range(Ids(prev.result)) \subseteq hist.seen0
       /\ Range(Ids(result)) \cap Range(Ids(prev.result)) = {}

\* C21 witness: the first call returned a paper and could not write the
\* ledger file; the second call was delivered that paper again and did not
\* return it.
C21_Witness ==
  /\ Returned
  /\ prev.called
  /\ "seen_papers_save" \in prev.log
  /\ prev.result # <<>>
  /\ Range(Ids(prev.result)) \subseteq hist.fetched
  /\ Range(Ids(result)) \cap Range(Ids(prev.result)) = {}

\* A query builder has been applied to the criteria in args.
Built(op) == call.op = op

\* The pieces of parts, with " OR " between them.
RECURSIVE OrJoined(_)
OrJoined(parts) ==
  IF parts = <<>> THEN <<>>
  ELSE IF Len(parts) = 1 THEN parts[1]
  ELSE parts[1] \o <<" OR ">> \o OrJoined(Tail(parts))

\* The number of pieces of the clause of n categories.
CategoryClauseLen(n) == IF n > 1 THEN 3 * n + 1 ELSE 2

\* C24: in the query _construct_query builds, a list of more than one
\* category gives one parenthesized group that holds every category with its
\* prefix, " OR " between them; a list of one gives the prefixed category and
\* no parenthesis.
C24_CategoryClause ==
  (Built("_construct_query") /\ ListTruthy(args.categories)) =>
    LET cats == args.categories.list
        n == Len(cats)
        q == call.value
    IN  /\ Len(q) >= CategoryClauseLen(n)
        /\ IF n > 1
           THEN /\ q[1] = "("
                /\ q[3 * n + 1] = ")"
                /\ \A i \in 1 .. n :
                     /\ q[3 * i - 1] = "cat:"
                     /\ q[3 * i] = cats[i]
                     /\ (i < n) => q[3 * i + 1] = " OR "
                /\ \A k \in 2 .. (3 * n) : q[k] \notin {"(", ")"}
           ELSE /\ q[1] = "cat:"
                /\ q[2] = cats[1]

\* C24 witness: two categories and a term; the query starts with the group
\* of the two categories.
C24_Witness ==
  /\ Built("_construct_query")
  /\ args.categories = ListOf(<<"cs.AI", "cs.LG">>)
  /\ ListTruthy(args.search_terms)
  /\ SubSeq(call.value, 1, 7) =
       <<"(", "cat:", "cs.AI", " OR ", "cat:", "cs.LG", ")">>

\* C24 witness, one category: no parenthesis.
C24_SingleWitness ==
  /\ Built("_construct_query")
  /\ args.categories = ListOf(<<"cs.LG">>)
  /\ args.search_terms = NoList
  /\ call.value = <<"cat:", "cs.LG">>

\* The clause of a list of terms: a term with whitespace between two quote
\* marks, " OR " between the terms, parentheses around more than one term.
ExpectedTermClause(terms, mark) ==
  LET joined ==
        OrJoined([i \in DOMAIN terms |->
                    IF \E k \in DOMAIN terms[i] : terms[i][k] = " "
                    THEN <<mark>> \o terms[i] \o <<mark>>
                    ELSE terms[i]])
  IN  IF Len(terms) > 1 THEN <<"(">> \o joined \o <<")">> ELSE joined

\* The part of a built query q that follows the category clause and " AND ".
TermPart(q) ==
  IF ListTruthy(args.categories)
  THEN SubSeq(q, CategoryClauseLen(Len(args.categories.list)) + 2, Len(q))
  ELSE q

\* The quote marks a builder may use: percent-encoded or literal.
QuoteForms == {"%22", "\""}

\* C25: the term clause of a built query, whichever of the two builders
\* built it, has the terms joined by " OR ", a term wrapped in quote marks
\* exactly when it contains whitespace, parentheses exactly when there is
\* more than one term, and the same quote form as _construct_query uses.
C25_TermClause ==
  ((Built("_construct_query") \/ Built("search")) /\ ListTruthy(args.search_terms)) =>
    \E mark \in QuoteForms :
      /\ TermPart(_construct_query(args.search_terms, args.categories)) =
           ExpectedTermClause(args.search_terms.list, mark)
      /\ TermPart(call.value) = ExpectedTermClause(args.search_terms.list, mark)

\* C25 for _construct_query alone, with the percent-encoded quote form.
C25_ConstructQueryTermClause ==
  (Built("_construct_query") /\ ListTruthy(args.search_terms)) =>
    TermPart(call.value) = ExpectedTermClause(args.search_terms.list, "%22")

\* The clause of a list of categories.
ExpectedCategoryClause(cats) ==
  LET joined == OrJoined([i \in DOMAIN cats |-> <<"cat:", cats[i]>>])
  IN  IF Len(cats) > 1 THEN <<"(">> \o joined \o <<")">> ELSE joined

\* C26: _construct_query returns the category clause, " AND ", the term
\* clause when both lists are given; the one clause when one is; the empty
\* string when each is None or empty.
C26_Composition ==
  Built("_construct_query") =>
    LET has_cats == args.categories # NoList /\ Len(args.categories.list) > 0
        has_terms == args.search_terms # NoList /\ Len(args.search_terms.list) > 0
    IN  call.value =
          IF has_cats /\ has_terms
          THEN ExpectedCategoryClause(args.categories.list)
               \o <<" AND ">>
               \o ExpectedTermClause(args.search_terms.list, "%22")
          ELSE IF has_cats THEN ExpectedCategoryClause(args.categories.list)
          ELSE IF has_terms THEN ExpectedTermClause(args.search_terms.list, "%22")
          ELSE <<>>

\* C26 witness: two categories and a phrase.
C26_Witness ==
  /\ Built("_construct_query")
  /\ args.categories = ListOf(<<"cs.AI", "cs.LG">>)
  /\ args.search_terms = ListOf(<< <<"deep", " ", "nets">> >>)
  /\ call.value =
       <<"(", "cat:", "cs.AI", " OR ", "cat:", "cs.LG", ")", " AND ",
         "%22", "deep", " ", "nets", "%22">>

\* C26 witness, no criteria: build(None, None) is the empty string.
C26_NoneWitness ==
  /\ Built("_construct_query")
  /\ args.categories = NoList
  /\ args.search_terms = NoList
  /\ call.value = <<>>

\* The number of zeros at the end of a sequence of numbers.
RECURSIVE TrailingZeros(_)
TrailingZeros(ns) ==
  IF ns = <<>> \/ ns[Len(ns)] # 0 THEN 0
  ELSE 1 + TrailingZeros(SubSeq(ns, 1, Len(ns) - 1))

\* C27: consecutive_seen_requests is between 0 and 3 and is the number of
\* the most recent processed pages in a row that gave no new paper; a page
\* gives as many new papers as it has records that are neither in the ledger
\* nor accepted earlier in the call, up to the quota.
C27_StallCount ==
  /\ consecutive_seen_requests \in 0 .. 3
  /\ consecutive_seen_requests = TrailingZeros(hist.yields)
  /\ \A k \in DOMAIN hist.yields :
       (hist.yields[k] = 0) <=>
         \A j \in (hist.offsets[k] + 1) ..
                    Min(hist.offsets[k] + args.request_size, Len(remote)) :
           \/ remote[j] \in hist.seen0
           \/ \E i \in 1 .. hist.offsets[k] : remote[i] = remote[j]

\* C27 witness: two pages of known records, then a page with a new one: the
\* counter went to 2 and is back at 0.
C27_Witness ==
  /\ pc \in {"while", "sleep"}
  /\ Len(hist.yields) = 3
  /\ hist.yields[1] = 0
  /\ hist.yields[2] = 0
  /\ hist.yields[3] > 0
  /\ consecutive_seen_requests = 0

\* The j-th record of the list was delivered to the call, was not in the
\* ledger at its start, and was not accepted.
LeftOver(j) ==
  /\ j <= start_index
  /\ remote[j] \notin hist.seen0
  /\ \A i \in DOMAIN found_papers : found_papers[i].id # remote[j]

\* C28: a record of a processed page that the call did not accept and the
\* ledger did not hold was cut off by the quota: the quota is reached, the
\* record is on the last page processed, after the last accepted one, it is
\* not in the ledger, and that page counted as productive: the counter is 0
\* and the offset is past the page.
C28_QuotaMidPage ==
  \A j \in DOMAIN remote :
    (LeftOver(j) /\ ncalls > 0 /\ query # <<>>) =>
      /\ Len(found_papers) >= args.max_results
      /\ remote[j] \notin DOMAIN seen_papers
      /\ j > start_index - args.request_size
      /\ \E i \in 1 .. (j - 1) :
           /\ i > start_index - args.request_size
           /\ remote[i] = found_papers[Len(found_papers)].id
      /\ consecutive_seen_requests = 0
      /\ hist.yields[Len(hist.yields)] > 0
      /\ start_index = Len(hist.yields) * args.request_size

\* C28 witness: the first call took the first record of a page of two and
\* reached its quota of one; the second call returned the second record.
C28_Witness ==
  /\ Returned
  /\ prev.called
  /\ args.request_size = 2
  /\ args.max_results = 1
  /\ Len(remote) >= 2
  /\ Ids(prev.result) = <<remote[1]>>
  /\ Ids(result) = <<remote[2]>>
  /\ hist.seen0 = {remote[1]}

\* C29: requests and pauses alternate, starting with a request; a pause is
\* made only while the quota is not reached and the counter is below 3, and
\* a request follows it; the call does not end on a pause.
C29_PauseBetweenRequests ==
  /\ \A i \in DOMAIN hist.events :
       hist.events[i] = IF i % 2 = 1 THEN "fetch" ELSE "sleep"
  /\ (hist.events # <<>> /\ hist.events[Len(hist.events)] = "sleep") =>
       /\ pc = "while"
       /\ Continue(found_papers, consecutive_seen_requests)
  /\ (pc = "sleep") =>
       /\ Continue(found_papers, consecutive_seen_requests)
       /\ hist.events[Len(hist.events)] = "fetch"

\* C29 witness: a call that made three requests and two pauses has returned,
\* the last page having brought it to its quota.
C29_Witness ==
  /\ Returned
  /\ hist.events = <<"fetch", "sleep", "fetch", "sleep", "fetch">>
  /\ Len(result) = args.max_results
  /\ hist.stop = "none"

\* C30: the k-th request of a call asks for the offset (k - 1) * request_size;
\* the offset is the number of pages processed times request_size.
C30_Offsets ==
  /\ Len(hist.offsets) = hist.nfetch
  /\ \A k \in DOMAIN hist.offsets :
       hist.offsets[k] = (k - 1) * args.request_size
  /\ \A j, k \in DOMAIN hist.offsets : j # k => hist.offsets[j] # hist.offsets[k]
  /\ start_index = Len(hist.yields) * args.request_size

\* C30 witness: three requests with request_size 2 asked for the offsets 0,
\* 2 and 4.
C30_Witness ==
  /\ args.request_size = 2
  /\ hist.offsets = <<0, 2, 4>>

\* main has ended after a search whose only result was a record with an
\* enriched cache entry and with its id in the ledger.
CachedAndKnownRun ==
  /\ main.at = "done"
  /\ Len(remote) = 1
  /\ hist.fetched = {remote[1]}
  /\ remote[1] \in hist.seen0
  /\ HasSummary(_load_summary_from_file(remote[1]))
  /\ Enriched(_load_summary_from_file(remote[1]))

\* C22: in a run of main where the only record the remote search returns
\* has an enriched cache entry and its id in the ledger, no LLM request is
\* made and exactly one email is sent, with that record carrying the cached
\* summary and the cached title.
C22_CachedRecordMailed ==
  CachedAndKnownRun =>
    /\ main.llm_requests = 0
    /\ Len(main.emails) = 1
    /\ Len(main.emails[1]) = 1
    /\ main.emails[1][1] = _load_summary_from_file(remote[1])
    /\ main.emails[1][1].title = "file"

\* What main does in that run: search_papers returns nothing, so nothing is
\* summarized and no email is sent.
C22_KnownRecordNotMailed ==
  CachedAndKnownRun =>
    /\ result = <<>>
    /\ main.llm_requests = 0
    /\ main.emails = <<>>

\* C23: after send_email reported failure, every ledger key and every cache
\* entry written earlier in the run is present and unchanged: the stores are
\* as they were when the last summary was saved.
C23_FailedEmailKeepsWrites ==
  (main.at = "done" /\ main.emails # <<>> /\ ~main.email_success) =>
    /\ \A i \in Range(Ids(result)) :
         i \in DOMAIN seen_papers /\ seen_papers[i] = ncalls
    /\ \A i \in hist.seen0 : i \in DOMAIN seen_papers /\ seen_papers[i] = 0
    /\ \A i \in main.written :
         \E k \in DOMAIN main.paper_summaries :
           /\ main.paper_summaries[k].id = i
           /\ summaries[i] = JsonFile(main.paper_summaries[k])
    /\ main.committed = [summaries |-> summaries, seen_papers |-> seen_papers,
                         seen_file |-> seen_file]

\* C23 witness: the run marked a record, wrote its summary, and the email
\* failed.
C23_Witness ==
  /\ main.at = "done"
  /\ main.emails # <<>>
  /\ ~main.email_success
  /\ result # <<>>
  /\ main.written # {}
  /\ seen_file = LedgerFile(seen_papers)

\* ------------------------------------------------- claims C31 .. C40

\* C31: every record search_papers accepts is the enriched cache entry of
\* its id as it is, or the conversion of the remote result with no summary.
C31_EnrichedOrFresh ==
  \A i \in DOMAIN found_papers :
    LET paper_id == hist.order[i]
    IN  \/ /\ EnrichedEntry(paper_id)
           /\ found_papers[i] = _load_summary_from_file(paper_id)
        \/ /\ found_papers[i] = _convert_result(RawResult(paper_id))
           /\ found_papers[i].summary = None

\* What search_papers does: the cache entry is taken as it is when its
\* summary is truthy, blank or not; search_papers itself sets no summary.
C31_CachedOrFresh ==
  \A i \in DOMAIN found_papers :
    LET paper_id == hist.order[i]
    IN  \/ /\ HasSummary(_load_summary_from_file(paper_id))
           /\ found_papers[i] = _load_summary_from_file(paper_id)
        \/ /\ found_papers[i] = _convert_result(RawResult(paper_id))
           /\ found_papers[i].summary = None

\* C32: search_papers and get_paper_by_id leave every cache file as it is;
\* the cache changes only in save_summary_to_file, which removes no file.
C32_CacheReadOnly ==
  [][ /\ ~(call'.op = "save_summary_to_file" /\ ncalls' = ncalls + 1) =>
           summaries' = summaries
      /\ \A i \in IDs : summaries[i] # NoFile => summaries'[i] # NoFile ]_vars

\* C32 witness: get_paper_by_id returned the record of a cache file, which
\* is still there, and the ledger now holds its id.
C32_Witness ==
  /\ call.op = "get_paper_by_id"
  /\ call.requests = 0
  /\ call.outcome = "returned"
  /\ ~call.was_seen
  /\ JsonFile(call.value) = summaries[call.paper_id]

\* C32 witness, save_summary_to_file: a write that failed half way left a
\* file that cannot be read, where a readable one was.
C32_SaveWitness ==
  /\ call.op = "save_summary_to_file"
  /\ call.outcome = "truncated"
  /\ summaries[call.value.id] = BadJson

\* C34: whatever the remote service answers, a search_papers call makes at
\* most 3 * max_results requests, none when max_results is 0, and returns.
C34_Terminates ==
  /\ [](hist.nfetch <= 3 * args.max_results)
  /\ (pc # "idle") ~> (pc = "idle")

\* C34 witness: with max_results = 2 the call made six requests, the bound
\* itself: two pages of known papers, one new paper, three more known pages.
C34_Witness ==
  /\ pc = "idle"
  /\ args.max_results = 2
  /\ hist.nfetch = 6
  /\ hist.yields = <<0, 0, 1, 0, 0, 0>>
  /\ Len(result) = 1

\* The durable ledger holds what the in-memory ledger holds.
InSync == seen_file = LedgerFile(seen_papers)

\* The operation that ends with this step rewrote the ledger file, or tried
\* to: search_papers and mark_papers_as_seen always do, get_paper_by_id for
\* an id the ledger did not hold.
LedgerWrite ==
  \/ pc = "mark"
  \/ /\ ncalls' = ncalls + 1
     /\ \/ call'.op = "mark_papers_as_seen"
        \/ /\ call'.op = "get_paper_by_id"
           /\ call'.outcome = "returned"
           /\ ~call'.was_seen

\* C37: on one engine, a step in which no write of the ledger file fails
\* leaves the file equal to the in-memory ledger if it was equal before (the
\* load succeeded, or an earlier write did) or if the step writes the file;
\* so the two are equal whenever no operation is in progress from the first
\* successful load or write on, as long as no write fails.
C37_DurableEqualsMemory ==
  [][ ("seen_papers_save" \notin log' /\ (InSync \/ LedgerWrite)) => InSync' ]_vars

\* C37 witness: after two calls, the second a search_papers call that
\* returned papers and wrote the ledger, the file equals the in-memory ledger
\* of two ids.
C37_Witness ==
  /\ pc = "idle"
  /\ ncalls = 2
  /\ hist.nsaves = 1
  /\ result # <<>>
  /\ Cardinality(DOMAIN seen_papers) = 2
  /\ seen_file = LedgerFile(seen_papers)

\* C38: get_paper_by_id returns the paper the service has whether or not
\* the ledger holds its id, and no paper that get_paper_by_id has returned
\* is among the papers a later search_papers call on this engine accepts or
\* returns.
C38_GetFeedsLedger ==
  /\ (call.op = "get_paper_by_id" /\ call.response = "found") =>
       (call.outcome = "returned" /\ call.value.id = call.paper_id)
  /\ \A i \in DOMAIN found_papers : found_papers[i].id \notin got
  /\ \A i \in DOMAIN result : result[i].id \notin got

\* C38 witness, not gated: the ledger held the id and get_paper_by_id
\* fetched and returned the paper.
C38_Witness ==
  /\ call.op = "get_paper_by_id"
  /\ call.was_seen
  /\ call.requests = 1
  /\ call.outcome = "returned"

\* C38 witness, feeding: the first paper of the remote list was got, it was
\* all the ledger held when the search_papers call after it began, and that
\* call went past it and returned the second.
C38_SearchWitness ==
  /\ pc = "idle"
  /\ Len(remote) = 2
  /\ got = {remote[1]}
  /\ hist.seen0 = {remote[1]}
  /\ hist.nfetch > 0
  /\ Ids(result) = <<remote[2]>>

\* C39: every summary file holds the record whose id names the file, which
\* save_summary_to_file keeps so; every paper search_papers accepts, cached
\* or converted, has the id that was tested against the ledger, and that id
\* is in the ledger once the call has marked its papers.
C39_KeyIsId ==
  /\ \A k \in IDs :
       summaries[k].kind = "json" => from_dict(JsonLoad(summaries[k].text)).id = k
  /\ Len(found_papers) = Len(hist.order)
  /\ \A i \in DOMAIN found_papers : found_papers[i].id = hist.order[i]
  /\ (pc = "idle" /\ hist.nsaves = 1) =>
       \A i \in DOMAIN hist.order : hist.order[i] \in DOMAIN seen_papers

\* C39 witness: search_papers returned a record that save_summary_to_file
\* had written (the records a caller saves are titled "api", and a converted
\* record has no summary), and its id is in the ledger.
C39_Witness ==
  /\ pc = "idle"
  /\ hist.nsaves = 1
  /\ Len(result) = 1
  /\ result[1].title = "api"
  /\ Truthy(result[1].summary)
  /\ hist.order = <<result[1].id>>
  /\ result[1].id \in DOMAIN seen_papers \ hist.seen0

\* The characters of a URL before its first colon, and what follows them.
SchemeEnd(url) == CHOOSE k \in DOMAIN url : url[k] = ":" /\ \A j \in 1 .. (k - 1) : url[j] # ":"
SchemeOf(url) == SubSeq(url, 1, SchemeEnd(url) - 1)
AfterScheme(url) == SubSeq(url, SchemeEnd(url), Len(url))

\* The pdf_url a result gives to its conversion: its attribute, or without
\* one the arXiv link of its id.
GivenUrl(r) ==
  IF "pdf_url" \in DOMAIN r THEN r.pdf_url
  ELSE <<"h", "t", "t", "p", "s", ":", "/", "/", "arxiv.org", "/", "pdf", "/",
         r.entry_id[Len(r.entry_id)], ".pdf">>

C40_SummarizerUrls ==
  \A i \in DOMAIN found_papers :
    found_papers[i].summary = None =>
      SchemeOf(found_papers[i].pdf_url) = <<"h", "t", "t", "p", "s">>

\* The first run of main is over and the search of the next has returned.
SecondSearchReturned == ncalls = 2 /\ pc = "idle"

\* The ids of the ledger file.
DurableIds == DOMAIN _load_seen_papers(seen_file)

C35_ReturnedAgain ==
  /\ SecondSearchReturned
  /\ "seen_papers_save" \in prev.log
  /\ Len(prev.result) = 1
  /\ Ids(result) = Ids(prev.result)

\* The summary file of record i is JSON that is no PaperData.
Unreadable(i) ==
  summaries[i].kind = "json" /\ "title" \notin DOMAIN summaries[i].text

\* Accepting record i raises: its summary file is no PaperData, or it has no
\* summary file and its result cannot be converted.
CannotAccept(i) ==
  Unreadable(i) \/ (summaries[i].kind # "json" /\ i \in BrokenIds)

\* The ids of the page at start_index, and the positions of those that are
\* new to the ledger and to this call and cannot be accepted.
PageIds ==
  SubSeq(remote, start_index + 1,
         Min(start_index + args.request_size, Len(remote)))
Stumbles ==
  {j \in DOMAIN PageIds :
     /\ PageIds[j] \notin DOMAIN seen_papers \cup seen_in_this_run
     /\ CannotAccept(PageIds[j])}

SetMin(S) == CHOOSE x \in S : \A y \in S : x <= y

\* The ids of the page that are accepted before position k.
AcceptedBefore(k) ==
  NewInOrder(SubSeq(PageIds, 1, k - 1), DOMAIN seen_papers \cup seen_in_this_run)

\* C36: when search_papers comes, before its quota is full, to a record of
\* a page that it cannot accept (a summary file of valid JSON that is no
\* PaperData, or a result that cannot be converted), it leaves the loop as
\* after a failed request: the records accepted before, those of this page
\* included, are kept, nothing after is accepted, no further request is made,
\* and they are returned and marked.  get_paper_by_id raises for such a
\* summary file, without a request to the service and without marking.
C36_ExceptionEndsPagination ==
  [][ /\ ( /\ pc = "while"
           /\ hist'.nfetch = hist.nfetch + 1
           /\ hist'.stop \notin {"fail", "empty"}
           /\ Stumbles # {}
           /\ Len(found_papers) + Len(AcceptedBefore(SetMin(Stumbles)))
                < args.max_results ) =>
           /\ hist'.stop = "raise"
           /\ pc' = "mark"
           /\ SubSeq(found_papers', 1, Len(found_papers)) = found_papers
           /\ Ids(found_papers') =
                Ids(found_papers) \o AcceptedBefore(SetMin(Stumbles))
      /\ (pc = "mark" /\ hist.stop = "raise") =>
           /\ pc' = "idle"
           /\ hist'.nfetch = hist.nfetch
           /\ result' = found_papers
           /\ \A i \in DOMAIN found_papers :
                found_papers[i].id \in DOMAIN seen_papers'
      /\ ( /\ ncalls' = ncalls + 1
           /\ call'.op = "get_paper_by_id"
           /\ Unreadable(call'.paper_id) ) =>
           /\ call'.outcome = "raised"
           /\ call'.requests = 0
           /\ seen_papers' = seen_papers
           /\ seen_file' = seen_file
    ]_vars

\* C36 witness: the second record of a page has a summary file that is no
\* PaperData; the first was accepted, returned and marked, and the third
\* record of the list, on the next page, was never asked for.
C36_Witness ==
  /\ pc = "idle"
  /\ hist.stop = "raise"
  /\ remote = <<1, 2, 1>>
  /\ args.request_size = 2
  /\ args.max_results = 2
  /\ Unreadable(2)
  /\ hist.nfetch = 1
  /\ Ids(result) = <<1>>
  /\ 1 \in DOMAIN seen_papers \ hist.seen0

\* C36 witness, conversion: the result of the second record could not be
\* converted.
C36_ConversionWitness ==
  /\ pc = "idle"
  /\ hist.stop = "raise"
  /\ remote = <<1, 2>>
  /\ summaries[2] = NoFile
  /\ hist.nfetch = 1
  /\ Ids(result) = <<1>>

\* C36 witness, get_paper_by_id: the summary file is no PaperData and the
\* call raised.
C36_GetWitness ==
  /\ call.op = "get_paper_by_id"
  /\ Unreadable(call.paper_id)
  /\ call.outcome = "raised"

\* The process whose engine the variables hold has written the ledger file
\* in this step.
WritesLedger ==
  pc = "mark" /\ other' = other /\ "seen_papers_save" \notin log'

\* C33: with two engines on one ledger file, every write of the file leaves
\* in it the in-memory ledger of the engine that writes and nothing else: an
\* id the other engine has marked and written stays only if the writer holds
\* it too.
C33_WholeMappingRewritten ==
  [][ WritesLedger => seen_file' = LedgerFile(seen_papers') ]_vars

\* Both processes have returned from their call.
BothReturned ==
  /\ pc = "idle" /\ ncalls = 1
  /\ other.pc = "idle" /\ other.ncalls = 1

\* C33 witness, the lost update and the duplicate: no write has failed; the
\* engine that wrote last holds fewer ids than the other, so the file misses
\* an id the other accepted, marked and wrote; and one record was returned
\* by both.
C33_Witness ==
  /\ BothReturned
  /\ "seen_papers_save" \notin log \cup other.log
  /\ seen_file = LedgerFile(seen_papers)
  /\ \E i \in DOMAIN other.result :
       /\ other.result[i].id \in DOMAIN other.seen_papers
       /\ other.result[i].id \notin DOMAIN _load_seen_papers(seen_file)
  /\ \E i \in DOMAIN result : \E j \in DOMAIN other.result :
       result[i] = other.result[j]

====
